---- MODULE Spec2Model ----
(***************************************************************************)
(* The mode-of-operation engine of aes-ts: the AES block primitive and the *)
(* modes built on it, each operation translated from its TypeScript source *)
(* and run on concrete byte strings.                                       *)
(*                                                                         *)
(* A Uint8Array is a sequence of integers in 0..255 (index i of the source *)
(* is index i + 1 here).  An operation's outcome is a record               *)
(* [kind, val]: kind "ok" with the returned bytes, kind "null" for the     *)
(* verification-failure sentinel, kind "error" for a thrown Error.         *)
(***************************************************************************)
EXTENDS Integers, Sequences, FiniteSets, TLC

VARIABLES
  pc,     \* position of the scenario: which call was made last
  cfg,    \* the mode under test and the parameters given to its constructor
  args,   \* the byte arrays the caller passed to the first call
  enc,    \* what the encrypt / wrap call returned
  dargs,  \* the byte arrays the caller passed to the inverse call
  dec,    \* what the decrypt / unwrap call returned
  inst    \* running state of the stateful instances (CTR, OFB, CFB, CBC)

vars == <<pc, cfg, args, enc, dargs, dec, inst>>

-----------------------------------------------------------------------------
(* Byte arrays *)

\* a function over 1..n as a sequence value
Bytes(s) == s \o <<>>

Zeros(n) == Bytes([i \in 1..n |-> 0])

Ok(v) == [kind |-> "ok", val |-> v]
Null == [kind |-> "null", val |-> <<>>]
Error == [kind |-> "error", val |-> <<>>]

RECURSIVE BitXor(_, _)
BitXor(a, b) ==
  IF a = 0 THEN b
  ELSE IF b = 0 THEN a
  ELSE ((a + b) % 2) + 2 * BitXor(a \div 2, b \div 2)

XorTable == Bytes([a \in 1..256 |-> Bytes([b \in 1..256 |-> BitXor(a - 1, b - 1)])])

\* a ^ b on bytes
bxor(a, b) == XorTable[a + 1][b + 1]

\* TypedArray.prototype.subarray(begin, end), 0-based, with its clamping
subarray(a, begin, end) ==
  LET n == Len(a)
      b == IF begin < 0 THEN (IF n + begin < 0 THEN 0 ELSE n + begin)
           ELSE IF begin > n THEN n ELSE begin
      e == IF end < 0 THEN (IF n + end < 0 THEN 0 ELSE n + end)
           ELSE IF end > n THEN n ELSE end
  IN IF e <= b THEN <<>> ELSE SubSeq(a, b + 1, e)

\* TypedArray.prototype.set(src, offset) on a copy of target (src fits)
set(target, src, offset) ==
  Bytes([i \in 1..Len(target) |->
     IF i > offset /\ i <= offset + Len(src) THEN src[i - offset] ELSE target[i]])

\* utils/xor: result has a's length; a missing b[i] leaves a[i] (x ^ undefined = x)
xor(a, b) ==
  Bytes([i \in 1..Len(a) |-> IF i <= Len(b) THEN bxor(a[i], b[i]) ELSE a[i]])

\* a comparison of the whole arrays instead of their first n bytes
tagsMatch_WholeArrays(tag, expected, n) == tag = expected

\* a comparison loop that stops one byte early
tagsMatch_SkipsLastByte(tag, expected, n) ==
  \A i \in 1..(n - 1) : (IF i <= Len(tag) THEN tag[i] ELSE 0) = expected[i]

\* the constant-time comparison loop: OR of tag[i] ^ expected[i] over i < n
\* (a byte missing from tag reads as undefined, which XORs as 0)
tagsMatch(tag, expected, n) ==
  \A i \in 1..n : (IF i <= Len(tag) THEN tag[i] ELSE 0) = expected[i]

-----------------------------------------------------------------------------
(* AES (aes.ts); the tables of constants.ts are those of FIPS-197 *)

S ==
  <<
     99, 124, 119, 123, 242, 107, 111, 197, 48, 1, 103, 43, 254, 215, 171, 118,
     202, 130, 201, 125, 250, 89, 71, 240, 173, 212, 162, 175, 156, 164, 114, 192,
     183, 253, 147, 38, 54, 63, 247, 204, 52, 165, 229, 241, 113, 216, 49, 21,
     4, 199, 35, 195, 24, 150, 5, 154, 7, 18, 128, 226, 235, 39, 178, 117,
     9, 131, 44, 26, 27, 110, 90, 160, 82, 59, 214, 179, 41, 227, 47, 132,
     83, 209, 0, 237, 32, 252, 177, 91, 106, 203, 190, 57, 74, 76, 88, 207,
     208, 239, 170, 251, 67, 77, 51, 133, 69, 249, 2, 127, 80, 60, 159, 168,
     81, 163, 64, 143, 146, 157, 56, 245, 188, 182, 218, 33, 16, 255, 243, 210,
     205, 12, 19, 236, 95, 151, 68, 23, 196, 167, 126, 61, 100, 93, 25, 115,
     96, 129, 79, 220, 34, 42, 144, 136, 70, 238, 184, 20, 222, 94, 11, 219,
     224, 50, 58, 10, 73, 6, 36, 92, 194, 211, 172, 98, 145, 149, 228, 121,
     231, 200, 55, 109, 141, 213, 78, 169, 108, 86, 244, 234, 101, 122, 174, 8,
     186, 120, 37, 46, 28, 166, 180, 198, 232, 221, 116, 31, 75, 189, 139, 138,
     112, 62, 181, 102, 72, 3, 246, 14, 97, 53, 87, 185, 134, 193, 29, 158,
     225, 248, 152, 17, 105, 217, 142, 148, 155, 30, 135, 233, 206, 85, 40, 223,
     140, 161, 137, 13, 191, 230, 66, 104, 65, 153, 45, 15, 176, 84, 187, 22
  >>

SI == Bytes([y \in 1..256 |-> (CHOOSE x \in 1..256 : S[x] = y - 1) - 1])

RCON == <<1, 2, 4, 8, 16, 32, 64, 128, 27, 54, 108, 216, 171, 77, 154, 47, 94, 188, 99, 198,
          151, 53, 106, 212, 179, 125, 250, 239, 197, 145>>

\* multiplication by x in GF(2^8), from which the T and U tables are built
xtime(x) == IF x >= 128 THEN bxor((2 * x) % 256, 27) ELSE 2 * x
Mul2 == Bytes([x \in 1..256 |-> xtime(x - 1)])
Mul4 == Bytes([x \in 1..256 |-> xtime(xtime(x - 1))])
Mul8 == Bytes([x \in 1..256 |-> xtime(xtime(xtime(x - 1)))])

\* the columns of MixColumns and of its inverse for one byte; a 32-bit word is the tuple
\* of its 4 bytes, most significant first
MixColumn(s, s2) == <<s2, s, s, bxor(s2, s)>>
InvMixColumn(x, x2, x4, x8) ==
  <<bxor(bxor(x8, x4), x2), bxor(x8, x), bxor(bxor(x8, x4), x), bxor(bxor(x8, x2), x)>>

\* w rotated right by n bytes
RotWord(w, n) == Bytes([i \in 1..4 |-> w[((i - 1 - n + 4) % 4) + 1]])

T1 == Bytes([x \in 1..256 |-> MixColumn(S[x], Mul2[S[x] + 1])])
T2 == Bytes([x \in 1..256 |-> RotWord(T1[x], 1)])
T3 == Bytes([x \in 1..256 |-> RotWord(T1[x], 2)])
T4 == Bytes([x \in 1..256 |-> RotWord(T1[x], 3)])
U1 == Bytes([x \in 1..256 |-> InvMixColumn(x - 1, Mul2[x], Mul4[x], Mul8[x])])
U2 == Bytes([x \in 1..256 |-> RotWord(U1[x], 1)])
U3 == Bytes([x \in 1..256 |-> RotWord(U1[x], 2)])
U4 == Bytes([x \in 1..256 |-> RotWord(U1[x], 3)])
T5 == Bytes([x \in 1..256 |-> U1[SI[x] + 1]])
T6 == Bytes([x \in 1..256 |-> U2[SI[x] + 1]])
T7 == Bytes([x \in 1..256 |-> U3[SI[x] + 1]])
T8 == Bytes([x \in 1..256 |-> U4[SI[x] + 1]])

NUMBER_OF_ROUNDS(keyLength) ==
  CASE keyLength = 16 -> 10 [] keyLength = 24 -> 12 [] keyLength = 32 -> 14 [] OTHER -> 0

convertToInt32(bytes) ==
  Bytes([i \in 1..(Len(bytes) \div 4) |-> SubSeq(bytes, 4 * i - 3, 4 * i)])

\* for (i = from; i <= to; i++) tk[i] ^= tk[i - 1]   (1-based word indices)
RECURSIVE ChainXor(_, _, _)
ChainXor(tk, i, to) ==
  IF i > to THEN tk ELSE ChainXor([tk EXCEPT ![i] = xor(@, tk[i - 1])], i + 1, to)

\* tk[0] ^= S-box of tt rotated by one byte, ^ RCON[rconPointer] << 24, with tt = tk[KC - 1]
ExpandHead(tk, rconPointer) ==
  [tk EXCEPT ![1] = xor(@, << bxor(S[tk[Len(tk)][2] + 1], RCON[rconPointer + 1]),
                              S[tk[Len(tk)][3] + 1], S[tk[Len(tk)][4] + 1],
                              S[tk[Len(tk)][1] + 1] >>)]

\* tk[KC / 2] ^= S-box of tt, with tt = tk[KC / 2 - 1]   (KC = 8)
ExpandMiddle(tk) ==
  [tk EXCEPT ![5] = xor(@, <<S[tk[4][1] + 1], S[tk[4][2] + 1], S[tk[4][3] + 1], S[tk[4][4] + 1]>>)]

\* one turn of the key-expansion loop of prepare() on the KC words of tk
ExpandStep(tk, rconPointer) ==
  IF Len(tk) # 8 THEN ChainXor(ExpandHead(tk, rconPointer), 2, Len(tk))
  ELSE ChainXor(ExpandMiddle(ChainXor(ExpandHead(tk, rconPointer), 2, 4)), 6, 8)

\* the round-key words in the order prepare() stores them; tk is the last KC words of W
RECURSIVE ExpandKey(_, _, _, _)
ExpandKey(W, KC, rconPointer, roundKeyCount) ==
  IF Len(W) >= roundKeyCount THEN SubSeq(W, 1, roundKeyCount)
  ELSE ExpandKey(W \o ExpandStep(SubSeq(W, Len(W) - KC + 1, Len(W)), rconPointer),
                 KC, rconPointer + 1, roundKeyCount)

\* _Ke: round r holds words 4r .. 4r + 3
EncryptionKeys(W, rounds) == Bytes([r \in 1..(rounds + 1) |-> SubSeq(W, 4 * r - 3, 4 * r)])

\* _Kd: the round keys in reverse order, the inner ones passed through U1..U4
DecryptionKeys(Ke, rounds) ==
  Bytes([r \in 1..(rounds + 1) |->
     IF r = 1 \/ r = rounds + 1 THEN Ke[rounds + 2 - r]
     ELSE Bytes([c \in 1..4 |->
            xor(xor(U1[Ke[rounds + 2 - r][c][1] + 1], U2[Ke[rounds + 2 - r][c][2] + 1]),
                xor(U3[Ke[rounds + 2 - r][c][3] + 1], U4[Ke[rounds + 2 - r][c][4] + 1]))])])

KeySchedule(Ke, rounds) == [Ke |-> Ke, Kd |-> DecryptionKeys(Ke, rounds)]

AES_prepare(key, rounds) ==
  KeySchedule(EncryptionKeys(ExpandKey(convertToInt32(key), Len(key) \div 4, 0,
                                       (rounds + 1) * 4), rounds), rounds)

\* new AES(key): the expanded key
AES(key) == AES_prepare(key, NUMBER_OF_ROUNDS(Len(key)))

\* t[i] ^= key[i] on the four words
AddRoundKey(t, rk) == Bytes([i \in 1..4 |-> xor(t[i], rk[i])])

EncRound(t, rk) ==
  Bytes([i \in 1..4 |->
     xor(xor(xor(T1[t[i][1] + 1], T2[t[(i % 4) + 1][2] + 1]),
             xor(T3[t[((i + 1) % 4) + 1][3] + 1], T4[t[((i + 2) % 4) + 1][4] + 1])), rk[i])])

\* rounds r = 1 .. rounds - 1 on the state [t, r]
RECURSIVE EncRounds(_, _)
EncRounds(s, Ke) ==
  IF s.r >= Len(Ke) - 1 THEN s.t
  ELSE EncRounds([t |-> EncRound(s.t, Ke[s.r + 1]), r |-> s.r + 1], Ke)

\* the result bytes, word after word
Flatten(w) == w[1] \o w[2] \o w[3] \o w[4]

EncFinal(t, k) ==
  Flatten([i \in 1..4 |->
     << bxor(S[t[i][1] + 1], k[i][1]),
        bxor(S[t[(i % 4) + 1][2] + 1], k[i][2]),
        bxor(S[t[((i + 1) % 4) + 1][3] + 1], k[i][3]),
        bxor(S[t[((i + 2) % 4) + 1][4] + 1], k[i][4]) >>])

\* AES.encrypt(plaintext) on a 16-byte block
AES_encrypt(aes, plaintext) ==
  EncFinal(EncRounds([t |-> AddRoundKey(convertToInt32(plaintext), aes.Ke[1]), r |-> 1],
                     aes.Ke),
           aes.Ke[Len(aes.Ke)])

DecRound(t, rk) ==
  Bytes([i \in 1..4 |->
     xor(xor(xor(T5[t[i][1] + 1], T6[t[((i + 2) % 4) + 1][2] + 1]),
             xor(T7[t[((i + 1) % 4) + 1][3] + 1], T8[t[(i % 4) + 1][4] + 1])), rk[i])])

RECURSIVE DecRounds(_, _)
DecRounds(s, Kd) ==
  IF s.r >= Len(Kd) - 1 THEN s.t
  ELSE DecRounds([t |-> DecRound(s.t, Kd[s.r + 1]), r |-> s.r + 1], Kd)

DecFinal(t, k) ==
  Flatten([i \in 1..4 |->
     << bxor(SI[t[i][1] + 1], k[i][1]),
        bxor(SI[t[((i + 2) % 4) + 1][2] + 1], k[i][2]),
        bxor(SI[t[((i + 1) % 4) + 1][3] + 1], k[i][3]),
        bxor(SI[t[(i % 4) + 1][4] + 1], k[i][4]) >>])

\* AES.decrypt(ciphertext) on a 16-byte block
AES_decrypt(aes, ciphertext) ==
  DecFinal(DecRounds([t |-> AddRoundKey(convertToInt32(ciphertext), aes.Kd[1]), r |-> 1],
                     aes.Kd),
           aes.Kd[Len(aes.Kd)])

\* AES.encrypt and AES.decrypt throw on a block that is not 16 bytes long
AES_throws(block) == Len(block) # 16

-----------------------------------------------------------------------------
(* Counter and ModeOfOperationCTR (ctr.ts) *)

\* new Counter(bytes): a copy of the 16 bytes
Counter(initialValue) == Bytes(initialValue)

RECURSIVE IncrementFrom(_, _)
IncrementFrom(counter, i) ==
  IF i < 0 THEN counter
  ELSE IF counter[i + 1] = 255 THEN IncrementFrom([counter EXCEPT ![i + 1] = 0], i - 1)
  ELSE [counter EXCEPT ![i + 1] = @ + 1]

\* an increment of the low-order byte alone, without the carry
Counter_increment_NoCarry(counter) == [counter EXCEPT ![16] = (@ + 1) % 256]

Counter_increment(counter) == IncrementFrom(counter, 15)

CTR_new(key, counter) ==
  [mode |-> "ctr", aes |-> AES(key), counter |-> counter,
   remainingCounter |-> <<>>, remainingCounterIndex |-> 16]

\* data[i + j] ^= stream[from + j] for j < k
xorAt(data, stream, i, k, from) ==
  Bytes([j \in 1..Len(data) |->
     IF j > i /\ j <= i + k THEN bxor(data[j], stream[from + j - i]) ELSE data[j]])

\* the smaller of what is left of the keystream block and what is left of the data
Take(index, left) == IF 16 - index < left THEN 16 - index ELSE left

\* if (remainingCounterIndex === 16): encrypt the counter, reset the cursor, increment
CTR_refill(st) ==
  IF st.remainingCounterIndex = 16
  THEN [st EXCEPT !.remainingCounter = AES_encrypt(st.aes, st.counter),
                  !.remainingCounterIndex = 0,
                  !.counter = Counter_increment(st.counter)]
  ELSE st

\* the next k bytes, XORed with the keystream from the cursor on
CTR_xorBytes(st, encrypted, i, k) ==
  [st |-> [st EXCEPT !.remainingCounterIndex = @ + k],
   out |-> Ok(xorAt(encrypted, st.remainingCounter, i, k, st.remainingCounterIndex)),
   i |-> i + k]

\* the bytes from i up to the next refill (st is the instance after the refill test)
CTR_step(st, encrypted, i) ==
  CTR_xorBytes(st, encrypted, i, Take(st.remainingCounterIndex, Len(encrypted) - i))

\* the byte loop of encrypt, taken one keystream block at a time
RECURSIVE CTR_loop(_)
CTR_loop(r) ==
  IF r.i >= Len(r.out.val) THEN [st |-> r.st, out |-> r.out]
  ELSE CTR_loop(CTR_step(CTR_refill(r.st), r.out.val, r.i))

\* an encrypt that starts every call on a new keystream block
CTR_encrypt_DropsLeftover(st, plaintext) ==
  CTR_loop([st |-> [st EXCEPT !.remainingCounterIndex = 16], out |-> Ok(plaintext), i |-> 0])

\* ModeOfOperationCTR.encrypt; decrypt is the same function
CTR_encrypt(st, plaintext) == CTR_loop([st |-> st, out |-> Ok(plaintext), i |-> 0])
CTR_decrypt(st, ciphertext) == CTR_encrypt(st, ciphertext)

-----------------------------------------------------------------------------
(* ModeOfOperationOFB (ofb.ts) *)

OFB_new(key, iv) ==
  [mode |-> "ofb", aes |-> AES(key), lastPrecipher |-> iv, lastPrecipherIndex |-> 16]

\* if (lastPrecipherIndex === 16): encrypt the last precipher, reset the cursor
OFB_refill(st) ==
  IF st.lastPrecipherIndex = 16
  THEN [st EXCEPT !.lastPrecipher = AES_encrypt(st.aes, st.lastPrecipher),
                  !.lastPrecipherIndex = 0]
  ELSE st

OFB_xorBytes(st, encrypted, i, k) ==
  [st |-> [st EXCEPT !.lastPrecipherIndex = @ + k],
   out |-> Ok(xorAt(encrypted, st.lastPrecipher, i, k, st.lastPrecipherIndex)),
   i |-> i + k]

OFB_step(st, encrypted, i) ==
  OFB_xorBytes(st, encrypted, i, Take(st.lastPrecipherIndex, Len(encrypted) - i))

\* the byte loop of encrypt, taken one keystream block at a time
RECURSIVE OFB_loop(_)
OFB_loop(r) ==
  IF r.i >= Len(r.out.val) THEN [st |-> r.st, out |-> r.out]
  ELSE OFB_loop(OFB_step(OFB_refill(r.st), r.out.val, r.i))

OFB_encrypt(st, plaintext) == OFB_loop([st |-> st, out |-> Ok(plaintext), i |-> 0])
OFB_decrypt(st, ciphertext) == OFB_encrypt(st, ciphertext)

-----------------------------------------------------------------------------
(* ModeOfOperationCFB (cfb.ts) *)

CFB_new(key, iv, segmentSize) ==
  [mode |-> "cfb", aes |-> AES(key), segmentSize |-> segmentSize,
   shiftRegister |-> Bytes(iv)]

\* shift the register left by one segment, then put the segment at its end
CFB_shift(shiftRegister, segment, segmentSize) ==
  set(set(shiftRegister, subarray(shiftRegister, segmentSize, 16), 0),
      segment, 16 - segmentSize)

\* one iteration, after the XOR: the register takes in the segment at i of feedback
CFB_feed(st, feedback, data, i) ==
  [st |-> [st EXCEPT !.shiftRegister =
             CFB_shift(@, subarray(feedback, i, i + st.segmentSize), st.segmentSize)],
   out |-> Ok(data),
   i |-> i + st.segmentSize]

\* an iteration of encrypt: the register takes in the ciphertext segment just produced
CFB_encStep(st, ciphertext, i) == CFB_feed(st, ciphertext, ciphertext, i)

RECURSIVE CFB_encLoop(_)
CFB_encLoop(r) ==
  IF r.i >= Len(r.out.val) THEN [st |-> r.st, out |-> r.out]
  ELSE CFB_encLoop(CFB_encStep(r.st,
         xorAt(r.out.val, AES_encrypt(r.st.aes, r.st.shiftRegister), r.i, r.st.segmentSize, 0),
         r.i))

CFB_encrypt(st, plaintext) ==
  IF Len(plaintext) % st.segmentSize # 0 THEN [st |-> st, out |-> Error]
  ELSE CFB_encLoop([st |-> st, out |-> Ok(plaintext), i |-> 0])

\* an iteration of decrypt that feeds the recovered plaintext segment into the register
CFB_decStep_FeedsPlaintext(st, ciphertext, plaintext, i) ==
  CFB_feed(st, plaintext, plaintext, i)

\* an iteration of decrypt: currentCiphertextSegment, saved before the XOR, is fed back
CFB_decStep(st, ciphertext, plaintext, i) == CFB_feed(st, ciphertext, plaintext, i)

RECURSIVE CFB_decLoop(_, _)
CFB_decLoop(r, ciphertext) ==
  IF r.i >= Len(r.out.val) THEN [st |-> r.st, out |-> r.out]
  ELSE CFB_decLoop(CFB_decStep(r.st, ciphertext,
         xorAt(r.out.val, AES_encrypt(r.st.aes, r.st.shiftRegister), r.i, r.st.segmentSize, 0),
         r.i), ciphertext)

CFB_decrypt(st, ciphertext) ==
  IF Len(ciphertext) % st.segmentSize # 0 THEN [st |-> st, out |-> Error]
  ELSE CFB_decLoop([st |-> st, out |-> Ok(ciphertext), i |-> 0], ciphertext)

-----------------------------------------------------------------------------
(* ModeOfOperationCBC (cbc.ts) *)

CBC_new(key, iv) == [mode |-> "cbc", aes |-> AES(key), lastCipherblock |-> Bytes(iv)]

\* lastCipherblock = aes.encrypt(block); ciphertext.set(lastCipherblock, i)
CBC_encStore(st, buf, ciphertext, i) ==
  [st |-> st, out |-> Ok(set(ciphertext, st.lastCipherblock, i)), arg |-> buf, i |-> i + 16]

\* block is the subarray of the caller's plaintext at i, XORed in place with the last
\* cipher block before it is encrypted
CBC_encStep(st, buf, ciphertext, i, block) ==
  CBC_encStore([st EXCEPT !.lastCipherblock = AES_encrypt(st.aes, block)],
               set(buf, block, i), ciphertext, i)

RECURSIVE CBC_encLoop(_)
CBC_encLoop(r) ==
  IF r.i >= Len(r.arg) THEN [st |-> r.st, out |-> r.out, arg |-> r.arg]
  ELSE CBC_encLoop(CBC_encStep(r.st, r.arg, r.out.val, r.i,
                     xor(subarray(r.arg, r.i, r.i + 16), r.st.lastCipherblock)))

\* an encrypt that chains the leading whole blocks before it rejects the length
CBC_encrypt_RejectsAfterChaining(st, plaintext) ==
  IF Len(plaintext) % 16 # 0
  THEN [CBC_encLoop([st |-> st, out |-> Ok(Zeros(Len(plaintext) - (Len(plaintext) % 16))),
                     arg |-> subarray(plaintext, 0, Len(plaintext) - (Len(plaintext) % 16)),
                     i |-> 0])
          EXCEPT !.out = Error, !.arg = plaintext]
  ELSE CBC_encLoop([st |-> st, out |-> Ok(Zeros(Len(plaintext))), arg |-> plaintext, i |-> 0])

\* arg is the caller's plaintext array after the call
CBC_encrypt(st, plaintext) ==
  IF Len(plaintext) % 16 # 0 THEN [st |-> st, out |-> Error, arg |-> plaintext]
  ELSE CBC_encLoop([st |-> st, out |-> Ok(Zeros(Len(plaintext))), arg |-> plaintext, i |-> 0])

CBC_decStep(st, plaintext, i, block) ==
  [st |-> [st EXCEPT !.lastCipherblock = block],
   out |-> Ok(set(plaintext, xor(AES_decrypt(st.aes, block), st.lastCipherblock), i)),
   i |-> i + 16]

RECURSIVE CBC_decLoop(_, _)
CBC_decLoop(r, ciphertext) ==
  IF r.i >= Len(ciphertext) THEN [st |-> r.st, out |-> r.out]
  ELSE CBC_decLoop(CBC_decStep(r.st, r.out.val, r.i, subarray(ciphertext, r.i, r.i + 16)),
                   ciphertext)

CBC_decrypt(st, ciphertext) ==
  IF Len(ciphertext) % 16 # 0 THEN [st |-> st, out |-> Error]
  ELSE CBC_decLoop([st |-> st, out |-> Ok(Zeros(Len(ciphertext))), i |-> 0], ciphertext)

-----------------------------------------------------------------------------
(* ModeOfOperationECB (ecb.ts) *)

ECB_new(key) == [mode |-> "ecb", aes |-> AES(key)]

RECURSIVE ECB_encLoop(_, _, _, _)
ECB_encLoop(st, plaintext, ciphertext, i) ==
  IF i >= Len(plaintext) THEN [st |-> st, out |-> Ok(ciphertext)]
  ELSE ECB_encLoop(st, plaintext,
         set(ciphertext, AES_encrypt(st.aes, subarray(plaintext, i, i + 16)), i), i + 16)

ECB_encrypt(st, plaintext) ==
  IF Len(plaintext) % 16 # 0 THEN [st |-> st, out |-> Error]
  ELSE ECB_encLoop(st, plaintext, Zeros(Len(plaintext)), 0)

RECURSIVE ECB_decLoop(_, _, _, _)
ECB_decLoop(st, ciphertext, plaintext, i) ==
  IF i >= Len(ciphertext) THEN [st |-> st, out |-> Ok(plaintext)]
  ELSE ECB_decLoop(st, ciphertext,
         set(plaintext, AES_decrypt(st.aes, subarray(ciphertext, i, i + 16)), i), i + 16)

ECB_decrypt(st, ciphertext) ==
  IF Len(ciphertext) % 16 # 0 THEN [st |-> st, out |-> Error]
  ELSE ECB_decLoop(st, ciphertext, Zeros(Len(ciphertext)), 0)

-----------------------------------------------------------------------------
(* ModeOfOperationGCM (gcm.ts) *)

\* x >> n of the source on a non-negative 32-bit x: the shift count is taken modulo 32
shr(x, n) == x \div (2 ^ (n % 32))

\* the 8 bytes written by  for (i = 0; i < 8; i++) b[7 - i] = (len >> (i * 8)) & 0xff
LengthBytesBE(len) == Bytes([k \in 1..8 |-> shr(len, (8 - k) * 8) % 256])

\* v shifted right by one bit across its 16 bytes
ShiftRight1(v) ==
  Bytes([j \in 1..16 |-> IF j = 1 THEN v[1] \div 2 ELSE (v[j] \div 2) + 128 * (v[j - 1] % 2)])

\* iteration i of the multiplication loop on the state [z, v, i]: z ^= v if bit
\* 7 - (i % 8) of x[i / 8] is set; v is shifted right and reduced by R = 0xe1 if its
\* lowest bit was set
galoisStep(x, r) ==
  [z |-> IF (x[(r.i \div 8) + 1] \div (2 ^ (7 - (r.i % 8)))) % 2 = 1 THEN xor(r.z, r.v)
         ELSE r.z,
   v |-> IF r.v[16] % 2 = 1 THEN [ShiftRight1(r.v) EXCEPT ![1] = bxor(@, 225)]
         ELSE ShiftRight1(r.v),
   i |-> r.i + 1]

\* the iterations up to iteration last
RECURSIVE galoisBits(_, _, _)
galoisBits(x, r, last) ==
  IF r.i > last THEN r ELSE galoisBits(x, galoisStep(x, r), last)

\* the 128 iterations of the loop, eight at a time
RECURSIVE galoisLoop(_, _)
galoisLoop(x, r) ==
  IF r.i >= 128 THEN r.z ELSE galoisLoop(x, galoisBits(x, r, r.i + 7))

galoisMultiply(x, y) == galoisLoop(x, [z |-> Zeros(16), v |-> Bytes(y), i |-> 0])

\* for (j < block.length) Y[j] ^= block[j]; Y = galoisMultiply(Y, H)
ghashStep(H, Y, block) == galoisMultiply(set(Y, xor(block, Y), 0), H)

\* one phase of ghash over the 16-byte steps of data
RECURSIVE ghashBlocks(_, _, _, _)
ghashBlocks(H, Y, data, i) ==
  IF i >= Len(data) THEN Y
  ELSE ghashBlocks(H, ghashStep(H, Y, subarray(data, i, i + 16)), data, i + 16)

\* finalBlock: lenA = associatedData.length * 8 and lenC = ciphertext.length * 8
ghash_finalBlock(associatedData, ciphertext) ==
  LengthBytesBE(Len(associatedData) * 8) \o LengthBytesBE(Len(ciphertext) * 8)

ghash(H, associatedData, ciphertext) ==
  galoisMultiply(
    xor(ghashBlocks(H, ghashBlocks(H, Zeros(16), associatedData, 0), ciphertext, 0),
        ghash_finalBlock(associatedData, ciphertext)),
    H)

\* the pre-counter block J0 of the constructor
GCM_J0(H, iv) ==
  IF Len(iv) = 12 THEN [set(Zeros(16), iv, 0) EXCEPT ![16] = 1] ELSE ghash(H, <<>>, iv)

GCM_init(key, aes, iv, H) ==
  [mode |-> "gcm", key |-> key, aes |-> aes, iv |-> iv, H |-> H, J0 |-> GCM_J0(H, iv)]

GCM_withAES(key, aes, iv) == GCM_init(key, aes, iv, AES_encrypt(aes, Zeros(16)))

GCM_new(key, iv) == GCM_withAES(key, AES(key), iv)

OkTag(ciphertext, tag) == [kind |-> "ok", val |-> ciphertext, tag |-> tag]

\* tag[i] = ghashResult[i] ^ S[i], S the encryption of J0
GCM_tag(g, associatedData, ciphertext) ==
  xor(ghash(g.H, associatedData, ciphertext), AES_encrypt(g.aes, g.J0))

GCM_seal(g, associatedData, ciphertext) ==
  OkTag(ciphertext, GCM_tag(g, associatedData, ciphertext))

GCM_encrypt(g, plaintext, associatedData) ==
  GCM_seal(g, associatedData,
           CTR_encrypt(CTR_new(g.key, Counter_increment(Counter(g.J0))), plaintext).out.val)

GCM_decrypt(g, ciphertext, tag, associatedData) ==
  IF Len(tag) # 16 THEN Null
  ELSE IF ~tagsMatch(tag, GCM_tag(g, associatedData, ciphertext), 16) THEN Null
  ELSE CTR_decrypt(CTR_new(g.key, Counter_increment(Counter(g.J0))), ciphertext).out

-----------------------------------------------------------------------------
(* ModeOfOperationCCM (ccm.ts) *)

CCM_new(key, tagSize, L) ==
  [mode |-> "ccm", aes |-> AES(key), tagSize |-> tagSize, L |-> L]

\* the constructor throws on these parameters
CCM_rejects(tagSize, L) == tagSize < 4 \/ tagSize > 16 \/ tagSize % 2 # 0 \/ L < 2 \/ L > 8

\* block with its last L bytes set by  for (j = 0; j < L; j++) b[15 - j] = (value >> (j * 8)) & 0xff
CCM_putLength(block, value, L) ==
  Bytes([k \in 1..16 |-> IF k > 16 - L THEN shr(value, (16 - k) * 8) % 256 ELSE block[k]])

\* the encoded length of the associated data
CCM_lenBlock(aadLen) ==
  IF aadLen < 65280 THEN <<shr(aadLen, 8) % 256, aadLen % 256>>
  ELSE <<255, 254, shr(aadLen, 24) % 256, shr(aadLen, 16) % 256,
         shr(aadLen, 8) % 256, aadLen % 256>>

\* lenBlock, then aad, zero-padded to a multiple of 16 bytes
CCM_formatted(lenBlock, aad) ==
  set(set(Zeros(((Len(lenBlock) + Len(aad) + 15) \div 16) * 16), lenBlock, 0),
      aad, Len(lenBlock))

CCM_formatAAD(aad) == CCM_formatted(CCM_lenBlock(Len(aad)), aad)

\* lastBlock = E(lastBlock ^ block) over the 16-byte steps of data, the last one
\* zero-padded; the loop state is [lastBlock, i]
RECURSIVE CCM_macBlocks(_, _, _)
CCM_macBlocks(c, r, data) ==
  IF r.i >= Len(data) THEN r.lastBlock
  ELSE CCM_macBlocks(c,
         [lastBlock |-> AES_encrypt(c.aes,
                          xor(r.lastBlock, set(Zeros(16), subarray(data, r.i, r.i + 16), 0))),
          i |-> r.i + 16],
         data)

CCM_flags(c, associatedData) ==
  (IF Len(associatedData) > 0 THEN 64 ELSE 0) + ((c.tagSize - 2) \div 2) * 8 + (c.L - 1)

CCM_B0(c, payload, iv, associatedData) ==
  CCM_putLength(set([Zeros(16) EXCEPT ![1] = CCM_flags(c, associatedData)], iv, 1),
                Len(payload), c.L)

\* the MAC state after B0, taken over the formatted associated data if there is any
CCM_macAAD(c, afterB0, associatedData) ==
  IF Len(associatedData) > 0
  THEN CCM_macBlocks(c, [lastBlock |-> afterB0, i |-> 0], CCM_formatAAD(associatedData))
  ELSE afterB0

CCM_cbcMac(c, payload, iv, associatedData) ==
  CCM_macBlocks(c,
    [lastBlock |-> CCM_macAAD(c, AES_encrypt(c.aes, CCM_B0(c, payload, iv, associatedData)),
                              associatedData),
     i |-> 0],
    payload)

CCM_computeS0(c, iv) == AES_encrypt(c.aes, set([Zeros(16) EXCEPT ![1] = c.L - 1], iv, 1))

CCM_xorMac(c, mac, s0) == xor(subarray(mac, 0, c.tagSize), s0)

\* block i of the data XORed with the encryption of the counter block
CCM_ctrStep(c, processedData, counterBlock, i) ==
  [processedData |->
     set(processedData,
         xor(subarray(processedData, (i - 1) * 16, (i - 1) * 16 + 16),
             AES_encrypt(c.aes, counterBlock)),
         (i - 1) * 16),
   counterBlock |-> counterBlock,
   i |-> i + 1]

\* the loop state is [processedData, counterBlock, i]; the counter i is written into
\* the last L bytes of the counter block
RECURSIVE CCM_ctrLoop(_, _)
CCM_ctrLoop(c, r) ==
  IF r.i > (Len(r.processedData) + 15) \div 16 THEN r.processedData
  ELSE CCM_ctrLoop(c, CCM_ctrStep(c, r.processedData,
                                  CCM_putLength(r.counterBlock, r.i, c.L), r.i))

\* counter block A_i as iteration i of the loop leaves it
CCM_counterBlock(c, iv, i) == CCM_putLength(set([Zeros(16) EXCEPT ![1] = c.L - 1], iv, 1), i, c.L)

CCM_ctrProcess(c, data, iv) ==
  CCM_ctrLoop(c, [processedData |-> data,
                  counterBlock |-> set([Zeros(16) EXCEPT ![1] = c.L - 1], iv, 1),
                  i |-> 1])

CCM_tag(c, plaintext, iv, associatedData) ==
  CCM_xorMac(c, CCM_cbcMac(c, plaintext, iv, associatedData), CCM_computeS0(c, iv))

CCM_encrypt(c, plaintext, iv, associatedData) ==
  IF Len(iv) # 15 - c.L THEN Error
  ELSE OkTag(CCM_ctrProcess(c, plaintext, iv), CCM_tag(c, plaintext, iv, associatedData))

\* the comparison of the received tag with the tag of the recovered plaintext
CCM_verify(c, plaintext, iv, tag, associatedData) ==
  IF ~tagsMatch(tag, CCM_tag(c, plaintext, iv, associatedData), c.tagSize) THEN Null
  ELSE Ok(plaintext)

CCM_decrypt(c, ciphertext, iv, tag, associatedData) ==
  IF Len(tag) # c.tagSize THEN Null
  ELSE IF Len(iv) # 15 - c.L THEN Error
  ELSE CCM_verify(c, CCM_ctrProcess(c, ciphertext, iv), iv, tag, associatedData)

-----------------------------------------------------------------------------
(* ModeOfOperationEAX (eax.ts) *)

\* _double: the block times x in GF(2^128); OCB, PMAC-SIV and XTS carry the same code
double(block) ==
  Bytes([i \in 1..16 |->
     IF i < 16 THEN (2 * block[i] + block[i + 1] \div 128) % 256
     ELSE IF block[1] >= 128 THEN bxor((2 * block[16]) % 256, 135) ELSE (2 * block[16]) % 256])

EAX_new(key, tagSize) == [mode |-> "eax", key |-> key, aes |-> AES(key), tagSize |-> tagSize]

EAX_rejects(tagSize) == tagSize < 8 \/ tagSize > 16

\* the blocks before the last one; the loop state is [lastBlock, i]
RECURSIVE EAX_omacBlocks(_, _, _, _)
EAX_omacBlocks(e, r, message, numBlocks) ==
  IF r.i >= numBlocks - 1 THEN r.lastBlock
  ELSE EAX_omacBlocks(e,
         [lastBlock |-> AES_encrypt(e.aes,
                          xor(r.lastBlock, subarray(message, r.i * 16, r.i * 16 + 16))),
          i |-> r.i + 1],
         message, numBlocks)

\* a whole final block takes the subkey L_u, a short one is padded and takes L_u2
EAX_omacFinal(e, lastBlock, finalBlock, L_u) ==
  AES_encrypt(e.aes,
    xor(lastBlock,
        IF Len(finalBlock) = 16 THEN xor(finalBlock, L_u)
        ELSE xor([set(Zeros(16), finalBlock, 0) EXCEPT ![Len(finalBlock) + 1] = 128],
                 double(L_u))))

EAX_omacMessage(e, message, numBlocks) ==
  EAX_omacFinal(e,
    EAX_omacBlocks(e, [lastBlock |-> Zeros(16), i |-> 0], message, numBlocks),
    subarray(message, (numBlocks - 1) * 16, Len(message)),
    double(AES_encrypt(e.aes, Zeros(16))))

EAX_omac(e, data, domain) ==
  EAX_omacMessage(e, <<domain>> \o data, (Len(data) + 1 + 15) \div 16)

EAX_tag(e, nonceMac, associatedData, ciphertext) ==
  xor(xor(nonceMac, EAX_omac(e, ciphertext, 2)), EAX_omac(e, associatedData, 1))

EAX_seal(e, nonceMac, associatedData, ciphertext) ==
  OkTag(ciphertext, subarray(EAX_tag(e, nonceMac, associatedData, ciphertext), 0, e.tagSize))

\* the rest of encrypt, the MAC of the nonce in hand
EAX_encryptUnder(e, plaintext, nonceMac, associatedData) ==
  EAX_seal(e, nonceMac, associatedData,
           CTR_encrypt(CTR_new(e.key, Counter(nonceMac)), plaintext).out.val)

EAX_encrypt(e, plaintext, nonce, associatedData) ==
  EAX_encryptUnder(e, plaintext, EAX_omac(e, nonce, 0), associatedData)

\* the rest of decrypt, the MAC of the nonce in hand
EAX_decryptUnder(e, ciphertext, tag, nonceMac, associatedData) ==
  IF ~tagsMatch(tag, EAX_tag(e, nonceMac, associatedData, ciphertext), e.tagSize) THEN Null
  ELSE CTR_decrypt(CTR_new(e.key, Counter(nonceMac)), ciphertext).out

EAX_decrypt(e, ciphertext, tag, nonce, associatedData) ==
  IF Len(tag) # e.tagSize THEN Null
  ELSE EAX_decryptUnder(e, ciphertext, tag, EAX_omac(e, nonce, 0), associatedData)

-----------------------------------------------------------------------------
(* ModeOfOperationOCB (ocb.ts) *)

OCB_rejects(tagSize) == tagSize < 8 \/ tagSize > 16

OCB_init(aes, tagSize, L_star) ==
  [mode |-> "ocb", aes |-> aes, tagSize |-> tagSize,
   L_star |-> L_star, L_dollar |-> double(L_star)]

OCB_withAES(aes, tagSize) == OCB_init(aes, tagSize, AES_encrypt(aes, Zeros(16)))

OCB_new(key, tagSize) == OCB_withAES(AES(key), tagSize)

\* L_series[n]: L_star doubled n times
RECURSIVE OCB_L_series(_, _)
OCB_L_series(o, n) == IF n = 0 THEN o.L_star ELSE double(OCB_L_series(o, n - 1))

OCB_shiftLeft(bytes, bits) ==
  IF bits % 8 = 0
  THEN Bytes([i \in 1..Len(bytes) |->
         IF i - 1 < Len(bytes) - bits \div 8 THEN bytes[i + bits \div 8] ELSE 0])
  ELSE Bytes([i \in 1..Len(bytes) |->
         ((IF i - 1 + bits \div 8 < Len(bytes)
           THEN bytes[i + bits \div 8] * (2 ^ (bits % 8)) ELSE 0)
          + (IF i + bits \div 8 < Len(bytes)
             THEN bytes[i + bits \div 8 + 1] \div (2 ^ (8 - (bits % 8))) ELSE 0)) % 256])

RECURSIVE OCB_ntz(_)
OCB_ntz(n) == IF n = 0 THEN 128 ELSE IF n % 2 = 1 THEN 0 ELSE 1 + OCB_ntz(n \div 2)

\* _pad on a block shorter than 16 bytes
OCB_pad(block) == [set(Zeros(16), block, 0) EXCEPT ![Len(block) + 1] = 128]

\* authOffset === this.L_star compares object identity; authOffset is always an array
\* allocated inside _ocb_process, never the instance's L_star object
OCB_isLStarObject(authOffset) == FALSE

\* one block of associated data under the offset authOffset
OCB_hashStep(o, block, authChecksum, authOffset, i) ==
  [authChecksum |->
     xor(authChecksum,
         AES_encrypt(o.aes, xor(IF Len(block) = 16 THEN block ELSE OCB_pad(block),
                                authOffset))),
   authOffset |-> authOffset,
   i |-> i + 16]

\* the loop over the associated data; its state is [authChecksum, authOffset, i]
RECURSIVE OCB_hashAAD(_, _, _)
OCB_hashAAD(o, associatedData, r) ==
  IF r.i >= Len(associatedData) THEN r.authChecksum
  ELSE OCB_hashAAD(o, associatedData,
         OCB_hashStep(o, subarray(associatedData, r.i, r.i + 16), r.authChecksum,
                      double(IF OCB_isLStarObject(r.authOffset) THEN double(o.L_star)
                             ELSE r.authOffset),
                      r.i))

\* output.set(outBlock, from); mainChecksum ^= sumBlock; the offset moves on
OCB_stored(r, mainOffset, from, outBlock, sumBlock) ==
  [output |-> set(r.output, outBlock, from),
   mainChecksum |-> xor(r.mainChecksum, sumBlock),
   mainOffset |-> mainOffset,
   i |-> r.i + 1]

\* the last, partial block: the checksum takes the padded plaintext side
OCB_partialStored(isEncryption, r, mainOffset, from, block, plaintextPartial) ==
  OCB_stored(r, mainOffset, from, plaintextPartial,
             OCB_pad(IF isEncryption THEN block ELSE plaintextPartial))

\* a whole block on decryption: the checksum takes the recovered plaintext
OCB_plaintextStored(r, mainOffset, from, plaintextBlock) ==
  OCB_stored(r, mainOffset, from, plaintextBlock, plaintextBlock)

\* iteration r.i of the main loop on the block at from, mainOffset already advanced;
\* a partial block can only be the last one, so its break ends the loop where the
\* loop condition would
OCB_mainStep(o, isEncryption, r, mainOffset, from, block) ==
  IF Len(block) < 16
  THEN OCB_partialStored(isEncryption, r, mainOffset, from, block,
         xor(block, subarray(AES_encrypt(o.aes, xor(mainOffset, o.L_star)), 0, Len(block))))
  ELSE IF isEncryption
  THEN OCB_stored(r, mainOffset, from,
                  xor(AES_encrypt(o.aes, xor(block, mainOffset)), mainOffset), block)
  ELSE OCB_plaintextStored(r, mainOffset, from,
                           xor(AES_decrypt(o.aes, xor(block, mainOffset)), mainOffset))

\* the main loop; its state is [output, mainChecksum, mainOffset, i]
RECURSIVE OCB_mainLoop(_, _, _, _)
OCB_mainLoop(o, data, isEncryption, r) ==
  IF r.i > (Len(data) + 15) \div 16 THEN r
  ELSE OCB_mainLoop(o, data, isEncryption,
         OCB_mainStep(o, isEncryption, r,
                      xor(r.mainOffset, OCB_L_series(o, OCB_ntz(r.i))),
                      (r.i - 1) * 16,
                      subarray(data, (r.i - 1) * 16, (r.i - 1) * 16 + 16)))

\* tmp: the tag length in byte 0, the nonce right-aligned, a 1 bit before it
OCB_tmp(o, nonce) ==
  [set([Zeros(16) EXCEPT ![1] = (o.tagSize * 8 * 2) % 256], nonce, 16 - Len(nonce))
     EXCEPT ![16 - Len(nonce)] = IF @ % 2 = 1 THEN @ ELSE @ + 1]

OCB_stretch(ktop) == ktop \o xor(subarray(ktop, 0, 8), subarray(ktop, 1, 9))

OCB_initialOffset(o, tmp) ==
  subarray(OCB_shiftLeft(OCB_stretch(AES_encrypt(o.aes, tmp)), tmp[16] % 64), 0, 16)

\* m is the state the main loop ends in
OCB_tag(o, m, authChecksum) ==
  subarray(xor(AES_encrypt(o.aes, xor(m.mainChecksum, xor(m.mainOffset, o.L_dollar))),
               authChecksum),
           0, o.tagSize)

OCB_result(o, m, authChecksum) == OkTag(m.output, OCB_tag(o, m, authChecksum))

OCB_process(o, data, nonce, associatedData, isEncryption) ==
  IF Len(nonce) = 0 \/ Len(nonce) > 15 THEN Error
  ELSE OCB_result(o,
         OCB_mainLoop(o, data, isEncryption,
           [output |-> Zeros(Len(data)), mainChecksum |-> Zeros(16),
            mainOffset |-> OCB_initialOffset(o, OCB_tmp(o, nonce)), i |-> 1]),
         OCB_hashAAD(o, associatedData,
           [authChecksum |-> Zeros(16), authOffset |-> Zeros(16), i |-> 0]))

OCB_encrypt(o, plaintext, nonce, associatedData) ==
  OCB_process(o, plaintext, nonce, associatedData, TRUE)

\* the tag comparison of decrypt on what _ocb_process returned
OCB_open(o, tag, r) ==
  IF r.kind = "error" THEN Error
  ELSE IF ~tagsMatch(tag, r.tag, o.tagSize) THEN Null
  ELSE Ok(r.val)

OCB_decrypt(o, ciphertext, tag, nonce, associatedData) ==
  IF Len(tag) # o.tagSize THEN Null
  ELSE OCB_open(o, tag, OCB_process(o, ciphertext, nonce, associatedData, FALSE))

-----------------------------------------------------------------------------
(* ModeOfOperationCWC (cwc.ts) *)

CWC_rejects(key) == Len(key) # 16 /\ Len(key) # 32

CWC_new(key) == [mode |-> "cwc", masterKey |-> key, aes |-> AES(key)]

\* iteration i of polyvalMultiply on the state [z, v, i]: z ^= v if bit xBitIndex of
\* x[xByteIndex] is set; v is shifted right by one bit, and v[0] ^= 0b11100001 if its
\* lowest bit was set
polyvalStep(x, r) ==
  LET xByteIndex == r.i \div 8
      xBitIndex == 7 - (r.i % 8)
      lsbSet == r.v[16] % 2 # 0
  IN [z |-> IF shr(x[xByteIndex + 1], xBitIndex) % 2 = 1 THEN xor(r.z, r.v) ELSE r.z,
      v |-> IF lsbSet THEN [ShiftRight1(r.v) EXCEPT ![1] = bxor(@, 225)]
            ELSE ShiftRight1(r.v),
      i |-> r.i + 1]

\* the iterations up to iteration last
RECURSIVE polyvalBits(_, _, _)
polyvalBits(x, r, last) ==
  IF r.i > last THEN r ELSE polyvalBits(x, polyvalStep(x, r), last)

\* the 128 iterations of the loop, eight at a time
RECURSIVE polyvalLoop(_, _)
polyvalLoop(x, r) ==
  IF r.i >= 128 THEN r.z ELSE polyvalLoop(x, polyvalBits(x, r, r.i + 7))

CWC_polyvalMultiply(x, y) == polyvalLoop(x, [z |-> Zeros(16), v |-> Bytes(y), i |-> 0])

padToBlockSize(data) ==
  IF Len(data) % 16 = 0 THEN data
  ELSE set(Zeros(Len(data) + (16 - (Len(data) % 16))), data, 0)

\* count bytes of n, least significant first
RECURSIVE LittleEndian(_, _)
LittleEndian(n, count) ==
  IF count = 0 THEN <<>> ELSE <<n % 256>> \o LittleEndian(n \div 256, count - 1)

LengthBytesLE(n) == LittleEndian(n, 8)

CWC_createLengthBlock(aadLen, textLen) == LengthBytesLE(aadLen * 8) \o LengthBytesLE(textLen * 8)

\* for each 16-byte block of data: s ^= block; s = polyvalMultiply(s, authKey); the
\* loop state is [s, i]
RECURSIVE CWC_hashBlocks(_, _, _)
CWC_hashBlocks(authKey, r, data) ==
  IF r.i >= Len(data) THEN r.s
  ELSE CWC_hashBlocks(authKey,
         [s |-> CWC_polyvalMultiply(xor(r.s, subarray(data, r.i, r.i + 16)), authKey),
          i |-> r.i + 16],
         data)

CWC_hash(authKey, associatedData, text) ==
  CWC_hashBlocks(authKey,
    [s |-> CWC_hashBlocks(authKey,
             [s |-> CWC_hashBlocks(authKey, [s |-> Zeros(16), i |-> 0],
                                   padToBlockSize(associatedData)),
              i |-> 0],
             padToBlockSize(text)),
     i |-> 0],
    CWC_createLengthBlock(Len(associatedData), Len(text)))

\* the nonce with the 32-bit block counter at 1
CWC_initialCounter(nonce) == [set(Zeros(16), nonce, 0) EXCEPT ![16] = 1]

\* the hash under hashKey = E(0^128), XORed with the encryption of the nonce block
CWC_tag(w, nonce, associatedData, ciphertext) ==
  xor(CWC_hash(AES_encrypt(w.aes, Zeros(16)), associatedData, ciphertext),
      AES_encrypt(w.aes, set(Zeros(16), nonce, 0)))

CWC_seal(w, nonce, associatedData, ciphertext) ==
  OkTag(ciphertext, CWC_tag(w, nonce, associatedData, ciphertext))

CWC_encrypt(w, plaintext, nonce, associatedData) ==
  IF Len(nonce) # 12 THEN Error
  ELSE CWC_seal(w, nonce, associatedData,
         CTR_encrypt(CTR_new(w.masterKey, Counter(CWC_initialCounter(nonce))),
                     plaintext).out.val)

CWC_decrypt(w, ciphertext, tag, nonce, associatedData) ==
  IF Len(nonce) # 12 THEN Error
  ELSE IF Len(tag) # 16 THEN Null
  ELSE IF ~tagsMatch(tag, CWC_tag(w, nonce, associatedData, ciphertext), 16) THEN Null
  ELSE CTR_decrypt(CTR_new(w.masterKey, Counter(CWC_initialCounter(nonce))), ciphertext).out

-----------------------------------------------------------------------------
(* ModeOfOperationGCM_SIV (gcm-siv.ts) *)

GCMSIV_rejects(key) == Len(key) # 16 /\ Len(key) # 32

GCMSIV_new(key) == [mode |-> "gcm-siv", masterKey |-> key]

\* the 32-bit little-endian counter i followed by the nonce
GCMSIV_counterBlock(i, nonce) ==
  set(<<i % 256, shr(i, 8) % 256, shr(i, 16) % 256, shr(i, 24) % 256>> \o Zeros(12), nonce, 4)

\* keyMaterial: the first 8 bytes of E(LE32(i) || nonce) for i = 0 .. numBlocks - 1
RECURSIVE GCMSIV_keyMaterial(_, _, _, _)
GCMSIV_keyMaterial(aes, nonce, keyMaterial, numBlocks) ==
  IF Len(keyMaterial) >= 8 * numBlocks THEN keyMaterial
  ELSE GCMSIV_keyMaterial(aes, nonce,
         keyMaterial \o subarray(AES_encrypt(aes,
                         GCMSIV_counterBlock(Len(keyMaterial) \div 8, nonce)), 0, 8),
         numBlocks)

GCMSIV_splitKeys(keyMaterial) ==
  [authKey |-> subarray(keyMaterial, 0, 16),
   encKey |-> subarray(keyMaterial, 16, Len(keyMaterial))]

GCMSIV_deriveKeys(s, nonce) ==
  GCMSIV_splitKeys(GCMSIV_keyMaterial(AES(s.masterKey), nonce, <<>>,
                                      IF Len(s.masterKey) = 16 THEN 4 ELSE 6))

\* the loop of cwc.ts again, statement for statement
GCMSIV_polyvalMultiply(x, y) == polyvalLoop(x, [z |-> Zeros(16), v |-> Bytes(y), i |-> 0])

\* DataView.setBigUint64(.., little-endian) of the two bit lengths
GCMSIV_createLengthBlock(aadLen, plaintextLen) ==
  LengthBytesLE(aadLen * 8) \o LengthBytesLE(plaintextLen * 8)

\* the loop state is [s, i]
RECURSIVE GCMSIV_polyvalBlocks(_, _, _)
GCMSIV_polyvalBlocks(authKey, r, data) ==
  IF r.i >= Len(data) THEN r.s
  ELSE GCMSIV_polyvalBlocks(authKey,
         [s |-> GCMSIV_polyvalMultiply(xor(r.s, subarray(data, r.i, r.i + 16)), authKey),
          i |-> r.i + 16],
         data)

GCMSIV_polyval(authKey, associatedData, plaintext) ==
  GCMSIV_polyvalBlocks(authKey,
    [s |-> GCMSIV_polyvalBlocks(authKey,
             [s |-> GCMSIV_polyvalBlocks(authKey, [s |-> Zeros(16), i |-> 0],
                                         padToBlockSize(associatedData)),
              i |-> 0],
             padToBlockSize(plaintext)),
     i |-> 0],
    GCMSIV_createLengthBlock(Len(associatedData), Len(plaintext)))

\* nonce ^ polyval on bytes 0..11, polyval on bytes 12..15, top bit of byte 15 cleared
GCMSIV_tagMaterial(nonce, polyvalResult) ==
  [xor(subarray(polyvalResult, 0, 12), nonce) \o subarray(polyvalResult, 12, 16)
     EXCEPT ![16] = @ % 128]

\* the tag of a plaintext under the derived keys
GCMSIV_tag(keys, plaintext, nonce, associatedData) ==
  AES_encrypt(AES(keys.encKey),
              GCMSIV_tagMaterial(nonce, GCMSIV_polyval(keys.authKey, associatedData, plaintext)))

\* new Uint8Array(tag) with byte 15 |= 0x80 (a byte missing from a short tag stays 0)
GCMSIV_initialCounter(tag) == [tag EXCEPT ![16] = (@ % 128) + 128]

\* step 3 of encrypt: CTR under encKey from the tag with its top bit set
GCMSIV_seal(keys, plaintext, tag) ==
  OkTag(CTR_encrypt(CTR_new(keys.encKey, Counter(GCMSIV_initialCounter(tag))),
                    plaintext).out.val,
        tag)

GCMSIV_encryptUnder(keys, plaintext, nonce, associatedData) ==
  GCMSIV_seal(keys, plaintext, GCMSIV_tag(keys, plaintext, nonce, associatedData))

GCMSIV_encrypt(s, plaintext, nonce, associatedData) ==
  IF Len(nonce) # 12 THEN Error
  ELSE GCMSIV_encryptUnder(GCMSIV_deriveKeys(s, nonce), plaintext, nonce, associatedData)

\* the comparison of the received tag with the tag of the recovered plaintext
GCMSIV_verify(keys, plaintext, tag, nonce, associatedData) ==
  IF ~tagsMatch(tag, GCMSIV_tag(keys, plaintext, nonce, associatedData), 16) THEN Null
  ELSE Ok(plaintext)

GCMSIV_decryptUnder(keys, ciphertext, tag, nonce, associatedData) ==
  GCMSIV_verify(keys,
    CTR_decrypt(CTR_new(keys.encKey, Counter(GCMSIV_initialCounter(tag))), ciphertext).out.val,
    tag, nonce, associatedData)

GCMSIV_decrypt(s, ciphertext, tag, nonce, associatedData) ==
  IF Len(nonce) # 12 THEN Error
  ELSE IF Len(tag) # 16 THEN Null
  ELSE GCMSIV_decryptUnder(GCMSIV_deriveKeys(s, nonce), ciphertext, tag, nonce, associatedData)

-----------------------------------------------------------------------------
(* ModeOfOperationPMAC_SIV (pmac-siv.ts) *)

PMACSIV_rejects(tagSize) == tagSize < 8 \/ tagSize > 16

PMACSIV_withAES(key, aes, tagSize) ==
  [mode |-> "pmac-siv", key |-> key, aes |-> aes, tagSize |-> tagSize,
   L_star |-> AES_encrypt(aes, Zeros(16))]

PMACSIV_new(key, tagSize) == PMACSIV_withAES(key, AES(key), tagSize)

RECURSIVE PMACSIV_L_series(_, _)
PMACSIV_L_series(m, n) == IF n = 0 THEN m.L_star ELSE double(PMACSIV_L_series(m, n - 1))

RECURSIVE PMACSIV_ntz(_)
PMACSIV_ntz(n) == IF n = 0 THEN 128 ELSE IF n % 2 = 1 THEN 0 ELSE 1 + PMACSIV_ntz(n \div 2)

PMACSIV_pad(block) ==
  IF Len(block) < 16 THEN [set(Zeros(16), block, 0) EXCEPT ![Len(block) + 1] = 128]
  ELSE set(Zeros(16), block, 0)

\* checksum ^= the block, padded if it is short
PMACSIV_sum(checksum, block) ==
  xor(checksum, IF Len(block) = 16 THEN block ELSE PMACSIV_pad(block))

\* the block loop of _pmac; its state is [checksum, offset, i]
RECURSIVE PMACSIV_pmacLoop(_, _, _)
PMACSIV_pmacLoop(m, data, r) ==
  IF r.i > (Len(data) + 15) \div 16 THEN r
  ELSE PMACSIV_pmacLoop(m, data,
         [checksum |-> PMACSIV_sum(r.checksum,
                         subarray(data, (r.i - 1) * 16, (r.i - 1) * 16 + 16)),
          offset |-> xor(r.offset, PMACSIV_L_series(m, PMACSIV_ntz(r.i))),
          i |-> r.i + 1])

\* checksum and offset before the final encryption
PMACSIV_sums(m, data) ==
  IF Len(data) = 0
  THEN [checksum |-> xor(Zeros(16), PMACSIV_pad(data)), offset |-> double(Zeros(16))]
  ELSE PMACSIV_pmacLoop(m, data, [checksum |-> Zeros(16), offset |-> Zeros(16), i |-> 1])

PMACSIV_final(m, r) == AES_encrypt(m.aes, xor(r.checksum, r.offset))

PMACSIV_pmac(m, data) == PMACSIV_final(m, PMACSIV_sums(m, data))

\* xor(xor(mac_nonce, mac_aad), mac_plaintext)
PMACSIV_ivTag(m, plaintext, nonce, associatedData) ==
  xor(xor(PMACSIV_pmac(m, nonce), PMACSIV_pmac(m, associatedData)), PMACSIV_pmac(m, plaintext))

\* CTR from the whole synthetic IV; the first tagSize bytes of it are returned
PMACSIV_seal(m, plaintext, iv_tag) ==
  OkTag(CTR_encrypt(CTR_new(m.key, Counter(iv_tag)), plaintext).out.val,
        subarray(iv_tag, 0, m.tagSize))

PMACSIV_encrypt(m, plaintext, nonce, associatedData) ==
  PMACSIV_seal(m, plaintext, PMACSIV_ivTag(m, plaintext, nonce, associatedData))

\* the comparison of the received tag with the synthetic IV of the recovered plaintext
PMACSIV_verify(m, plaintext, iv_tag, nonce, associatedData) ==
  IF ~tagsMatch(iv_tag, PMACSIV_ivTag(m, plaintext, nonce, associatedData), m.tagSize)
  THEN Null
  ELSE Ok(plaintext)

\* CTR from the received tag, zero-extended to 16 bytes
PMACSIV_decrypt(m, ciphertext, iv_tag, nonce, associatedData) ==
  IF Len(iv_tag) # m.tagSize THEN Null
  ELSE PMACSIV_verify(m,
         CTR_decrypt(CTR_new(m.key, Counter(set(Zeros(16), iv_tag, 0))), ciphertext).out.val,
         iv_tag, nonce, associatedData)

-----------------------------------------------------------------------------
(* ModeOfOperationXTS (xts.ts) *)

XTS_rejects(key) == Len(key) # 32 /\ Len(key) # 64

XTS_new(key) ==
  [mode |-> "xts", aes1 |-> AES(subarray(key, 0, Len(key) \div 2)),
   aes2 |-> AES(subarray(key, Len(key) \div 2, Len(key)))]

\* aes1.encrypt in encrypt, aes1.decrypt in decrypt
XTS_crypt(x, isEncryption, block) ==
  IF isEncryption THEN AES_encrypt(x.aes1, block) ELSE AES_decrypt(x.aes1, block)

\* one leading block: masked with the tweak, processed, masked again; the tweak doubles
XTS_blockStep(x, input, r, isEncryption) ==
  [output |-> set(r.output,
                  xor(XTS_crypt(x, isEncryption,
                                xor(subarray(input, r.i * 16, r.i * 16 + 16), r.currentTweak)),
                      r.currentTweak),
                  r.i * 16),
   currentTweak |-> double(r.currentTweak),
   i |-> r.i + 1]

\* the loop over the leading blocks; its state is [output, currentTweak, i]
RECURSIVE XTS_blocks(_, _, _, _, _)
XTS_blocks(x, input, r, iterationLimit, isEncryption) ==
  IF r.i >= iterationLimit THEN r
  ELSE XTS_blocks(x, input, XTS_blockStep(x, input, r, isEncryption),
                  iterationLimit, isEncryption)

\* the state the loop over the leading blocks ends in
XTS_lead(x, input, tweak, isEncryption) ==
  XTS_blocks(x, input,
             [output |-> Zeros(Len(input)), currentTweak |-> AES_encrypt(x.aes2, tweak),
              i |-> 0],
             IF Len(input) % 16 = 0 THEN Len(input) \div 16 - 2 ELSE Len(input) \div 16 - 1,
             isEncryption)

\* the input is a whole number of blocks: the last two blocks swap tweaks
XTS_encryptWhole(x, output, numBlocks, penultimateBlockP, lastBlockP, tweak_m_minus_1, tweak_m) ==
  IF AES_throws(xor(penultimateBlockP, tweak_m_minus_1)) THEN Error
  ELSE Ok(set(set(output,
                  xor(AES_encrypt(x.aes1, xor(lastBlockP, tweak_m)), tweak_m_minus_1),
                  (numBlocks - 2) * 16),
              xor(AES_encrypt(x.aes1, xor(penultimateBlockP, tweak_m_minus_1)), tweak_m),
              (numBlocks - 1) * 16))

\* ciphertext stealing: the partial block borrows the tail of preCiphertext
XTS_encryptSteal(x, output, numBlocks, finalBlockSize, finalPartialBlockP, preCiphertext, tweak_m_minus_1, tweak_m) ==
  Ok(set(set(output, subarray(preCiphertext, 0, finalBlockSize), numBlocks * 16),
         xor(AES_encrypt(x.aes1,
               xor(set(set(Zeros(16), finalPartialBlockP, 0),
                       subarray(preCiphertext, finalBlockSize, 16), Len(finalPartialBlockP)),
                   tweak_m)),
             tweak_m_minus_1),
         (numBlocks - 1) * 16))

XTS_encryptTail(x, plaintext, numBlocks, finalBlockSize, lead) ==
  IF finalBlockSize = 0
  THEN XTS_encryptWhole(x, lead.output, numBlocks,
         subarray(plaintext, (numBlocks - 2) * 16, (numBlocks - 1) * 16),
         subarray(plaintext, (numBlocks - 1) * 16, Len(plaintext)),
         lead.currentTweak, double(lead.currentTweak))
  ELSE XTS_encryptSteal(x, lead.output, numBlocks, finalBlockSize,
         subarray(plaintext, numBlocks * 16, Len(plaintext)),
         AES_encrypt(x.aes1,
           xor(subarray(plaintext, (numBlocks - 1) * 16, numBlocks * 16), lead.currentTweak)),
         lead.currentTweak, double(lead.currentTweak))

XTS_encrypt(x, plaintext, tweak) ==
  IF Len(plaintext) < 16 THEN Error
  ELSE IF Len(tweak) # 16 THEN Error
  ELSE XTS_encryptTail(x, plaintext, Len(plaintext) \div 16, Len(plaintext) % 16,
                       XTS_lead(x, plaintext, tweak, TRUE))

XTS_decryptWhole(x, output, numBlocks, penultimateBlockC, lastBlockC, tweak_m_minus_1, tweak_m) ==
  IF AES_throws(xor(penultimateBlockC, tweak_m_minus_1)) THEN Error
  ELSE Ok(set(set(output,
                  xor(AES_decrypt(x.aes1, xor(lastBlockC, tweak_m)), tweak_m_minus_1),
                  (numBlocks - 2) * 16),
              xor(AES_decrypt(x.aes1, xor(penultimateBlockC, tweak_m_minus_1)), tweak_m),
              (numBlocks - 1) * 16))

\* the partial block is completed with the tail of prePlaintext
XTS_decryptSteal(x, output, numBlocks, finalBlockSize, finalPartialBlockC, prePlaintext, tweak_m_minus_1) ==
  Ok(set(set(output, subarray(prePlaintext, 0, finalBlockSize), numBlocks * 16),
         xor(AES_decrypt(x.aes1,
               set(set(Zeros(16), finalPartialBlockC, 0),
                   subarray(prePlaintext, finalBlockSize, 16), Len(finalPartialBlockC))),
             tweak_m_minus_1),
         (numBlocks - 1) * 16))

XTS_decryptTail(x, ciphertext, numBlocks, finalBlockSize, lead) ==
  IF finalBlockSize = 0
  THEN XTS_decryptWhole(x, lead.output, numBlocks,
         subarray(ciphertext, (numBlocks - 2) * 16, (numBlocks - 1) * 16),
         subarray(ciphertext, (numBlocks - 1) * 16, Len(ciphertext)),
         lead.currentTweak, double(lead.currentTweak))
  ELSE XTS_decryptSteal(x, lead.output, numBlocks, finalBlockSize,
         subarray(ciphertext, numBlocks * 16, Len(ciphertext)),
         xor(AES_decrypt(x.aes1,
               xor(subarray(ciphertext, (numBlocks - 1) * 16, numBlocks * 16),
                   lead.currentTweak)),
             double(lead.currentTweak)),
         lead.currentTweak)

XTS_decrypt(x, ciphertext, tweak) ==
  IF Len(ciphertext) < 16 THEN Error
  ELSE IF Len(tweak) # 16 THEN Error
  ELSE XTS_decryptTail(x, ciphertext, Len(ciphertext) \div 16, Len(ciphertext) % 16,
                       XTS_lead(x, ciphertext, tweak, FALSE))

-----------------------------------------------------------------------------
(* ModeOfOperationKW (kw.ts) *)

defaultIV == <<166, 166, 166, 166, 166, 166, 166, 166>>

KW_new(key) == [mode |-> "kw", aes |-> AES(key)]

\* for (k = 7; k >= 0; k--) { A[k] ^= temp_t & 0xff; temp_t = floor(temp_t / 256);
\*                            if (temp_t === 0) break }
RECURSIVE KW_xorCounter(_, _, _)
KW_xorCounter(A, temp_t, k) ==
  IF k < 0 THEN A
  ELSE IF temp_t \div 256 = 0 THEN [A EXCEPT ![k + 1] = bxor(@, temp_t % 256)]
  ELSE KW_xorCounter([A EXCEPT ![k + 1] = bxor(@, temp_t % 256)], temp_t \div 256, k - 1)

\* the 8-byte blocks of data, R[1] .. R[n]
KW_split(data, first, n) ==
  Bytes([i \in 1..n |-> subarray(data, (first + i - 1) * 8, (first + i) * 8)])

RECURSIVE KW_join(_, _)
KW_join(R, i) == IF i > Len(R) THEN <<>> ELSE R[i] \o KW_join(R, i + 1)

\* A = MSB64(B) ^ t; R[i] = LSB64(B)
KW_wrapStore(r, t, encryptedB) ==
  [A |-> KW_xorCounter(subarray(encryptedB, 0, 8), t, 7),
   R |-> [r.R EXCEPT ![r.i] = subarray(encryptedB, 8, 16)],
   i |-> r.i + 1]

\* the inner loop of wrap for one j, i = 1 .. n; its state is [A, R, i]
RECURSIVE KW_wrapInner(_, _, _)
KW_wrapInner(kw, r, j) ==
  IF r.i > Len(r.R) THEN r
  ELSE KW_wrapInner(kw,
         KW_wrapStore(r, Len(r.R) * j + r.i, AES_encrypt(kw.aes, r.A \o r.R[r.i])), j)

\* the state of the outer loop after the inner loop r: [A, R, j]
KW_nextJ(r, j) == [A |-> r.A, R |-> r.R, j |-> j]

RECURSIVE KW_wrapOuter(_, _)
KW_wrapOuter(kw, s) ==
  IF s.j >= 6 THEN s
  ELSE KW_wrapOuter(kw,
         KW_nextJ(KW_wrapInner(kw, [A |-> s.A, R |-> s.R, i |-> 1], s.j), s.j + 1))

KW_wrapped(s) == Ok(s.A \o KW_join(s.R, 1))

KW_wrap(kw, plaintextKey) ==
  IF Len(plaintextKey) % 8 # 0 THEN Error
  ELSE KW_wrapped(KW_wrapOuter(kw,
         [A |-> defaultIV, R |-> KW_split(plaintextKey, 0, Len(plaintextKey) \div 8),
          j |-> 0]))

\* A = MSB64(B); R[i] = LSB64(B)
KW_unwrapStore(r, decryptedB) ==
  [A |-> subarray(decryptedB, 0, 8),
   R |-> [r.R EXCEPT ![r.i] = subarray(decryptedB, 8, 16)],
   i |-> r.i - 1]

\* the inner loop of unwrap for one j, i = n .. 1; its state is [A, R, i]
RECURSIVE KW_unwrapInner(_, _, _)
KW_unwrapInner(kw, r, j) ==
  IF r.i < 1 THEN r
  ELSE KW_unwrapInner(kw,
         KW_unwrapStore(r, AES_decrypt(kw.aes,
                             KW_xorCounter(r.A, Len(r.R) * j + r.i, 7) \o r.R[r.i])),
         j)

RECURSIVE KW_unwrapOuter(_, _)
KW_unwrapOuter(kw, s) ==
  IF s.j < 0 THEN s
  ELSE KW_unwrapOuter(kw,
         KW_nextJ(KW_unwrapInner(kw, [A |-> s.A, R |-> s.R, i |-> Len(s.R)], s.j), s.j - 1))

\* the integrity check on the recovered A
KW_unwrapped(s) == IF s.A # defaultIV THEN Null ELSE Ok(KW_join(s.R, 1))

KW_unwrap(kw, wrappedKey) ==
  IF Len(wrappedKey) % 8 # 0 \/ Len(wrappedKey) < 16 THEN Error
  ELSE KW_unwrapped(KW_unwrapOuter(kw,
         [A |-> subarray(wrappedKey, 0, 8),
          R |-> KW_split(wrappedKey, 1, Len(wrappedKey) \div 8 - 1),
          j |-> 5]))

-----------------------------------------------------------------------------
(* ModeOfOperationKWP (kwp.ts) *)

KWP_new(key) == [mode |-> "kwp", kw |-> KW_new(key)]

\* the 4 length bytes followed by the key, zero-padded to a multiple of 8 bytes
KWP_pad(plaintextKey) ==
  set(set(Zeros(((4 + Len(plaintextKey) + 7) \div 8) * 8),
          <<shr(Len(plaintextKey), 24) % 256, shr(Len(plaintextKey), 16) % 256,
            shr(Len(plaintextKey), 8) % 256, Len(plaintextKey) % 256>>, 0),
      plaintextKey, 4)

\* the four length bytes read least significant first
Int32BE_LittleEndian(b) == b[4] * 16777216 + b[3] * 65536 + b[2] * 256 + b[1]

\* (b0 << 24) | (b1 << 16) | (b2 << 8) | b3 as the signed 32-bit integer it is
Int32BE(b) ==
  (IF b[1] >= 128 THEN (b[1] - 256) * 16777216 ELSE b[1] * 16777216)
    + b[2] * 65536 + b[3] * 256 + b[4]

KWP_wrap(p, plaintextKey) == KW_wrap(p.kw, KWP_pad(plaintextKey))

\* the length check and the removal of the padding, plen read from the first 4 bytes
KWP_unpad(paddedPlaintext, plen) ==
  IF plen > Len(paddedPlaintext) - 4 THEN Null
  ELSE Ok(subarray(paddedPlaintext, 4, 4 + plen))

\* r is what kw.unwrap returned
KWP_open(r) == IF r.kind # "ok" THEN r ELSE KWP_unpad(r.val, Int32BE(r.val))

KWP_unwrap(p, wrappedKey) == KWP_open(KW_unwrap(p.kw, wrappedKey))

-----------------------------------------------------------------------------
(* ModeOfOperationTKW (tkw.ts) *)

TKW_new(key) == [mode |-> "tkw", kw |-> KW_new(key)]

\* the tweak zero-padded to a multiple of 8 bytes
TKW_padTweak(tweak) == set(Zeros(((Len(tweak) + 7) \div 8) * 8), tweak, 0)

TKW_wrap(w, plaintextKey, tweak) ==
  KW_wrap(w.kw, TKW_padTweak(tweak) \o KWP_pad(plaintextKey))

\* the part after the tweak: its length bytes, then the key
TKW_unpad(paddedPlaintext) ==
  IF Len(paddedPlaintext) < 4 THEN Null
  ELSE KWP_unpad(paddedPlaintext, Int32BE(paddedPlaintext))

\* r is what kw.unwrap returned; the unwrapped tweak must be the padded tweak
TKW_open(r, paddedTweak) ==
  IF r.kind # "ok" THEN r
  ELSE IF Len(r.val) < Len(paddedTweak) THEN Null
  ELSE IF subarray(r.val, 0, Len(paddedTweak)) # paddedTweak THEN Null
  ELSE TKW_unpad(subarray(r.val, Len(paddedTweak), Len(r.val)))

TKW_unwrap(w, wrappedKey, tweak) ==
  TKW_open(KW_unwrap(w.kw, wrappedKey), TKW_padTweak(tweak))

-----------------------------------------------------------------------------
(* Scenario inputs *)

\* largest number of whole 16-byte blocks in a message
MaxBlocks == 2

\* n bytes of test data
Sample(n, seed) == Bytes([i \in 1..n |-> (seed + 17 * i + (i \div 16) * 101) % 256])

None == [kind |-> "none", val |-> <<>>]

\* the keys the scenarios use
Key16 == Bytes([i \in 1..16 |-> i - 1])
Key16b == Bytes([i \in 1..16 |-> 15 + i])

-----------------------------------------------------------------------------
(* Scenario 1: the instance-state modes (ECB, CBC, CTR, OFB, CFB).  Two     *)
(* instances E and D are constructed with the same key, IV/counter and     *)
(* segment size; E encrypts, then either D or E itself decrypts.           *)

BasicIVs == {Zeros(16), Sample(16, 200)}

BlockLens == {16 * k : k \in 0..MaxBlocks}
StreamLens == BlockLens \cup {5, 16 * (MaxBlocks - 1) + 5}
Cfb8Lens == {8 * k : k \in 0..(2 * MaxBlocks)}

BasicConfigs ==
  [mode : {"ecb"}, segmentSize : {16}, iv : {Zeros(16)}, len : BlockLens]
  \cup [mode : {"cbc"}, segmentSize : {16}, iv : BasicIVs, len : BlockLens]
  \cup [mode : {"ctr", "ofb"}, segmentSize : {1}, iv : BasicIVs, len : StreamLens]
  \cup [mode : {"cfb"}, segmentSize : {1}, iv : BasicIVs, len : StreamLens]
  \cup [mode : {"cfb"}, segmentSize : {8}, iv : BasicIVs, len : Cfb8Lens]
  \cup [mode : {"cfb"}, segmentSize : {16}, iv : BasicIVs, len : BlockLens]

Basic_new(c) ==
  CASE c.mode = "ecb" -> ECB_new(Key16)
    [] c.mode = "cbc" -> CBC_new(Key16, c.iv)
    [] c.mode = "ctr" -> CTR_new(Key16, Counter(c.iv))
    [] c.mode = "ofb" -> OFB_new(Key16, c.iv)
    [] c.mode = "cfb" -> CFB_new(Key16, c.iv, c.segmentSize)

\* the call's effect: the instance afterwards, the outcome, the caller's argument afterwards
Basic_encrypt(st, plaintext) ==
  CASE st.mode = "ecb" -> ECB_encrypt(st, plaintext) @@ [arg |-> plaintext]
    [] st.mode = "cbc" -> CBC_encrypt(st, plaintext)
    [] st.mode = "ctr" -> CTR_encrypt(st, plaintext) @@ [arg |-> plaintext]
    [] st.mode = "ofb" -> OFB_encrypt(st, plaintext) @@ [arg |-> plaintext]
    [] st.mode = "cfb" -> CFB_encrypt(st, plaintext) @@ [arg |-> plaintext]

Basic_decrypt(st, ciphertext) ==
  CASE st.mode = "ecb" -> ECB_decrypt(st, ciphertext)
    [] st.mode = "cbc" -> CBC_decrypt(st, ciphertext)
    [] st.mode = "ctr" -> CTR_decrypt(st, ciphertext)
    [] st.mode = "ofb" -> OFB_decrypt(st, ciphertext)
    [] st.mode = "cfb" -> CFB_decrypt(st, ciphertext)

BasicInit ==
  /\ pc = "new"
  /\ cfg \in BasicConfigs
  /\ args = [p0 |-> Sample(cfg.len, 3), p |-> Sample(cfg.len, 3)]
  /\ inst = [E |-> Basic_new(cfg), D |-> Basic_new(cfg)]
  /\ enc = None
  /\ dargs = None
  /\ dec = None

\* c = E.encrypt(p)
BasicEncrypt ==
  /\ pc = "new"
  /\ LET r == Basic_encrypt(inst.E, args.p)
     IN /\ enc' = r.out
        /\ inst' = [inst EXCEPT !.E = r.st]
        /\ args' = [args EXCEPT !.p = r.arg]
  /\ pc' = "encrypted"
  /\ UNCHANGED <<cfg, dargs, dec>>

\* D.decrypt(c) on the second, fresh instance
BasicDecryptFresh ==
  /\ pc = "encrypted"
  /\ enc.kind = "ok"
  /\ LET r == Basic_decrypt(inst.D, enc.val)
     IN /\ dec' = r.out
        /\ inst' = [inst EXCEPT !.D = r.st]
  /\ dargs' = [c |-> enc.val]
  /\ pc' = "decryptedFresh"
  /\ UNCHANGED <<cfg, args, enc>>

\* E.decrypt(c) on the instance that has just encrypted
BasicDecryptSame ==
  /\ pc = "encrypted"
  /\ enc.kind = "ok"
  /\ LET r == Basic_decrypt(inst.E, enc.val)
     IN /\ dec' = r.out
        /\ inst' = [inst EXCEPT !.E = r.st]
  /\ dargs' = [c |-> enc.val]
  /\ pc' = "decryptedSame"
  /\ UNCHANGED <<cfg, args, enc>>

BasicNext == BasicEncrypt \/ BasicDecryptFresh \/ BasicDecryptSame

SpecBasic == BasicInit /\ [][BasicNext]_vars

\* C6: a fresh second instance with the same key, IV/counter and segment size decrypts
\* E's ciphertext to the bytes the plaintext held when encrypt was called, and the
\* ciphertext has the plaintext's length
C6_FreshInstanceRoundTrip ==
  /\ pc # "new" => enc.kind = "ok" /\ Len(enc.val) = Len(args.p0)
  /\ pc = "decryptedFresh" => dec = Ok(args.p0)

C6_Witness ==
  /\ pc = "decryptedFresh"
  /\ cfg.mode = "cfb" /\ cfg.segmentSize = 8 /\ cfg.len > 16
  /\ dec = Ok(args.p0)

\* C7: decrypt(c) on the same instance, directly after c = encrypt(p), returns p
C7_SameInstanceRoundTrip ==
  pc = "decryptedSame" /\ cfg.mode \in {"ctr", "ofb", "cfb", "cbc"} => dec = Ok(args.p0)

-----------------------------------------------------------------------------
(* Scenario 2: the authenticated modes.  One message is encrypted, then    *)
(* decrypted with what encrypt returned.                                   *)

\* the seven authenticated modes behind one call shape; GCM takes its IV in the constructor
AEAD_new(c, nonce) ==
  CASE c.mode = "gcm" -> GCM_new(Key16, nonce)
    [] c.mode = "ccm" -> CCM_new(Key16, c.tagSize, c.L)
    [] c.mode = "eax" -> EAX_new(Key16, c.tagSize)
    [] c.mode = "ocb" -> OCB_new(Key16, c.tagSize)
    [] c.mode = "cwc" -> CWC_new(Key16)
    [] c.mode = "gcm-siv" -> GCMSIV_new(Key16)
    [] c.mode = "pmac-siv" -> PMACSIV_new(Key16, c.tagSize)

AEAD_encrypt(i, plaintext, nonce, aad) ==
  CASE i.mode = "gcm" -> GCM_encrypt(i, plaintext, aad)
    [] i.mode = "ccm" -> CCM_encrypt(i, plaintext, nonce, aad)
    [] i.mode = "eax" -> EAX_encrypt(i, plaintext, nonce, aad)
    [] i.mode = "ocb" -> OCB_encrypt(i, plaintext, nonce, aad)
    [] i.mode = "cwc" -> CWC_encrypt(i, plaintext, nonce, aad)
    [] i.mode = "gcm-siv" -> GCMSIV_encrypt(i, plaintext, nonce, aad)
    [] i.mode = "pmac-siv" -> PMACSIV_encrypt(i, plaintext, nonce, aad)

\* d holds the arrays given to decrypt; a GCM receiver builds its instance from d.nonce
AEAD_decrypt(i, d) ==
  CASE i.mode = "gcm" ->
         GCM_decrypt(IF d.nonce = i.iv THEN i ELSE GCM_new(i.key, d.nonce),
                     d.ciphertext, d.tag, d.aad)
    [] i.mode = "ccm" -> CCM_decrypt(i, d.ciphertext, d.nonce, d.tag, d.aad)
    [] i.mode = "eax" -> EAX_decrypt(i, d.ciphertext, d.tag, d.nonce, d.aad)
    [] i.mode = "ocb" -> OCB_decrypt(i, d.ciphertext, d.tag, d.nonce, d.aad)
    [] i.mode = "cwc" -> CWC_decrypt(i, d.ciphertext, d.tag, d.nonce, d.aad)
    [] i.mode = "gcm-siv" -> GCMSIV_decrypt(i, d.ciphertext, d.tag, d.nonce, d.aad)
    [] i.mode = "pmac-siv" -> PMACSIV_decrypt(i, d.ciphertext, d.tag, d.nonce, d.aad)

\* the tag sizes each constructor accepts
TagSizes(mode) ==
  CASE mode = "ccm" -> {t \in 0..20 : ~CCM_rejects(t, 4)}
    [] mode = "eax" -> {t \in 0..20 : ~EAX_rejects(t)}
    [] mode = "ocb" -> {t \in 0..20 : ~OCB_rejects(t)}
    [] mode = "pmac-siv" -> {t \in 0..20 : ~PMACSIV_rejects(t)}
    [] OTHER -> {16}

X15 == Sample(15, 9)
B1 == Sample(16, 40)
B2 == Sample(16, 90)

\* associated data: none, a partial block, the same with the padding byte written out,
\* two blocks in both orders, one block twice
AadChoices == {<<>>, X15, X15 \o <<128>>, B1 \o B2, B2 \o B1, B1 \o B1}

AeadConfigs ==
  [mode : {"gcm"}, tagSize : {16}, L : {0}, nonceLen : {12, 8}]
  \cup [mode : {"ccm"}, tagSize : TagSizes("ccm"), L : {4}, nonceLen : {11}]
  \cup [mode : {"ccm"}, tagSize : {16}, L : {2}, nonceLen : {13}]
  \cup [mode : {"ccm"}, tagSize : {16}, L : {8}, nonceLen : {7}]
  \cup [mode : {"eax"}, tagSize : TagSizes("eax"), L : {0}, nonceLen : {12}]
  \cup [mode : {"ocb"}, tagSize : TagSizes("ocb"), L : {0}, nonceLen : {12}]
  \cup [mode : {"ocb"}, tagSize : {16}, L : {0}, nonceLen : {1, 15}]
  \cup [mode : {"cwc", "gcm-siv"}, tagSize : {16}, L : {0}, nonceLen : {12}]
  \cup [mode : {"pmac-siv"}, tagSize : TagSizes("pmac-siv"), L : {0}, nonceLen : {12}]

AeadInit ==
  /\ pc = "aead"
  /\ cfg \in AeadConfigs
  /\ \E len \in StreamLens, aad \in {<<>>, X15 \o B2} :
       args = [plaintext |-> Sample(len, 3), nonce |-> Sample(cfg.nonceLen, 150), aad |-> aad]
  /\ inst = [E |-> AEAD_new(cfg, args.nonce)]
  /\ enc = None
  /\ dargs = None
  /\ dec = None

\* {ciphertext, tag} = encrypt(plaintext, nonce, aad)
AeadEncrypt ==
  /\ pc = "aead"
  /\ enc' = AEAD_encrypt(inst.E, args.plaintext, args.nonce, args.aad)
  /\ pc' = "sealed"
  /\ UNCHANGED <<cfg, args, dargs, dec, inst>>

\* decrypt(ciphertext, tag, nonce, aad) with exactly what encrypt returned and was given
AeadDecrypt ==
  /\ pc = "sealed"
  /\ enc.kind = "ok"
  /\ dargs' = [ciphertext |-> enc.val, tag |-> enc.tag, nonce |-> args.nonce, aad |-> args.aad]
  /\ dec' = AEAD_decrypt(inst.E, dargs')
  /\ pc' = "opened"
  /\ UNCHANGED <<cfg, args, enc, inst>>

AeadNext == AeadEncrypt \/ AeadDecrypt

SpecAEAD == AeadInit /\ [][AeadNext]_vars

\* C1: for GCM, CCM, EAX, OCB, CWC and GCM-SIV, with every allowed tag size, encrypt
\* returns a ciphertext of the plaintext's length and decrypt of what encrypt returned
\* gives back the plaintext, never null -- empty and non-aligned plaintexts included
C1_AeadRoundTrip ==
  cfg.mode \in {"gcm", "ccm", "eax", "ocb", "cwc", "gcm-siv"} =>
    /\ pc = "sealed" \/ pc = "opened" =>
         enc.kind = "ok" /\ Len(enc.val) = Len(args.plaintext) /\ Len(enc.tag) = cfg.tagSize
    /\ pc = "opened" => dec = Ok(args.plaintext)

C1_Witness ==
  /\ pc = "opened" /\ cfg.mode = "ocb" /\ cfg.tagSize = 11
  /\ Len(args.plaintext) % 16 # 0 /\ Len(args.plaintext) > 16 /\ args.aad # <<>>
  /\ dec = Ok(args.plaintext)

\* C4: PMAC-SIV decrypt of what encrypt returned gives back the plaintext, for every
\* tag size 8..16
C4_PmacSivRoundTrip ==
  cfg.mode = "pmac-siv" /\ pc = "opened" => dec = Ok(args.plaintext)

-----------------------------------------------------------------------------
(* Scenario 3: the authenticated modes under modification.  One message is *)
(* encrypted; decrypt is then called with a modified ciphertext, tag,      *)
(* associated data or nonce.                                               *)

\* a with bit b flipped (bit b lies in byte b \div 8)
FlipBit(a, b) == [a EXCEPT ![(b \div 8) + 1] = bxor(@, 2 ^ (b % 8))]

\* the bits flipped in an array of n bytes: the low bit of its first byte and the high
\* bit of its last byte
FlipBits(n) == IF n = 0 THEN {} ELSE {0, 8 * n - 1}

\* a repeated 16 times: the array XORed into consecutive blocks
Repeat(d, n) == Bytes([i \in 1..n |-> d[((i - 1) % Len(d)) + 1]])

TamperConfigs ==
  [mode : {"gcm", "cwc", "gcm-siv"}, tagSize : {16}, L : {0}, nonceLen : {12}]
  \cup [mode : {"ccm"}, tagSize : {16, 4}, L : {4}, nonceLen : {11}]
  \cup [mode : {"eax", "pmac-siv"}, tagSize : {16}, L : {0}, nonceLen : {12}]
  \cup [mode : {"ocb"}, tagSize : {16, 8}, L : {0}, nonceLen : {12}]

TamperInit ==
  /\ pc = "aead"
  /\ cfg \in TamperConfigs
  /\ \E len \in {5, 16 * MaxBlocks}, aad \in AadChoices :
       args = [plaintext |-> Sample(len, 3), nonce |-> Sample(cfg.nonceLen, 150), aad |-> aad]
  /\ inst = [E |-> AEAD_new(cfg, args.nonce)]
  /\ enc = None
  /\ dargs = None
  /\ dec = None

Genuine == [ciphertext |-> enc.val, tag |-> enc.tag, nonce |-> args.nonce, aad |-> args.aad]

\* decrypt with the arrays d
TamperedDecrypt(d, label) ==
  /\ pc = "sealed"
  /\ enc.kind = "ok"
  /\ dargs' = d
  /\ dec' = AEAD_decrypt(inst.E, d)
  /\ pc' = label
  /\ UNCHANGED <<cfg, args, enc, inst>>

\* one bit of the ciphertext flipped
DecryptFlippedCiphertext ==
  /\ pc = "sealed"
  /\ \E b \in FlipBits(Len(enc.val)) :
       TamperedDecrypt([Genuine EXCEPT !.ciphertext = FlipBit(@, b)], "flippedCiphertext")

\* one bit of the tag flipped
DecryptFlippedTag ==
  /\ pc = "sealed"
  /\ \E b \in FlipBits(Len(enc.tag)) :
       TamperedDecrypt([Genuine EXCEPT !.tag = FlipBit(@, b)], "flippedTag")

\* one bit of the associated data flipped
DecryptFlippedAad ==
  /\ pc = "sealed"
  /\ \E b \in FlipBits(Len(args.aad)) :
       TamperedDecrypt([Genuine EXCEPT !.aad = FlipBit(@, b)], "flippedAad")

\* different associated data
DecryptOtherAad ==
  /\ pc = "sealed"
  /\ \E aad2 \in AadChoices \ {args.aad} :
       TamperedDecrypt([Genuine EXCEPT !.aad = aad2], "otherAad")

\* the nonce given as associated data and the associated data as nonce
DecryptSwappedNonceAad ==
  /\ pc = "sealed"
  /\ args.aad # args.nonce
  /\ TamperedDecrypt([Genuine EXCEPT !.nonce = args.aad, !.aad = args.nonce], "swappedNonceAad")

\* the same 16 bytes XORed into the first two ciphertext blocks
DecryptXoredCiphertext ==
  /\ pc = "sealed"
  /\ Len(enc.val) >= 32
  /\ TamperedDecrypt([Genuine EXCEPT !.ciphertext = xor(@, Repeat(B1, 32))], "xoredCiphertext")

TamperNext ==
  \/ AeadEncrypt
  \/ DecryptFlippedCiphertext
  \/ DecryptFlippedTag
  \/ DecryptFlippedAad
  \/ DecryptOtherAad
  \/ DecryptSwappedNonceAad
  \/ DecryptXoredCiphertext

SpecTamper == TamperInit /\ [][TamperNext]_vars

\* C2: in every authenticated mode (GCM, CCM, EAX, OCB, CWC, GCM-SIV, PMAC-SIV) decrypt
\* returns null when one bit of the ciphertext, of the tag or of the associated data
\* differs from what encrypt produced or was given
C2_BitFlipRejected ==
  pc \in {"flippedCiphertext", "flippedTag", "flippedAad"} => dec = Null

C2_Witness ==
  /\ pc = "flippedAad" /\ cfg.mode = "gcm-siv"
  /\ dargs.aad # args.aad /\ dargs.ciphertext = enc.val /\ dargs.tag = enc.tag
  /\ dec = Null

\* C3: OCB decrypt with associated data different from that given to encrypt returns
\* null, whether it differs in content, in the order of its blocks or in their number
C3_OcbAadAuthenticated ==
  cfg.mode = "ocb" /\ pc = "otherAad" => dec = Null

\* C5: PMAC-SIV with a 16-byte tag returns the plaintext only for the exact
\* (nonce, associated data, ciphertext) triple of the encryption; any other is null
C5_PmacSivExactTriple ==
  cfg.mode = "pmac-siv" /\ cfg.tagSize = 16
    /\ pc \in {"flippedCiphertext", "flippedAad", "otherAad", "swappedNonceAad", "xoredCiphertext"}
  => dec = Null

-----------------------------------------------------------------------------
(* Scenario 4: XTS.  A data unit is encrypted under a 16-byte tweak, then  *)
(* decrypted under the same tweak.                                         *)

XtsKey == Key16 \o Key16b

\* every length from one block up to MaxBlocks + 1 blocks
XtsLens == 16..(16 * MaxBlocks + 16)

XtsInit ==
  /\ pc = "xts"
  /\ cfg \in [mode : {"xts"}, len : XtsLens]
  /\ \E tweak \in {Zeros(16), Sample(16, 200)} :
       args = [plaintext |-> Sample(cfg.len, 3), tweak |-> tweak]
  /\ inst = [E |-> XTS_new(XtsKey)]
  /\ enc = None
  /\ dargs = None
  /\ dec = None

XtsEncrypt ==
  /\ pc = "xts"
  /\ enc' = XTS_encrypt(inst.E, args.plaintext, args.tweak)
  /\ pc' = "xtsEncrypted"
  /\ UNCHANGED <<cfg, args, dargs, dec, inst>>

XtsDecrypt ==
  /\ pc = "xtsEncrypted"
  /\ enc.kind = "ok"
  /\ dargs' = [ciphertext |-> enc.val, tweak |-> args.tweak]
  /\ dec' = XTS_decrypt(inst.E, enc.val, args.tweak)
  /\ pc' = "xtsDecrypted"
  /\ UNCHANGED <<cfg, args, enc, inst>>

XtsNext == XtsEncrypt \/ XtsDecrypt

SpecXTS == XtsInit /\ [][XtsNext]_vars

\* C8: for every plaintext of at least 16 bytes (exactly 16, larger multiples of 16,
\* lengths that are not multiples of 16) and a 16-byte tweak, XTS encrypt succeeds with
\* a ciphertext of the same length and decrypt under the same tweak returns the plaintext
C8_XtsRoundTrip ==
  /\ pc = "xtsEncrypted" \/ pc = "xtsDecrypted" =>
       enc.kind = "ok" /\ Len(enc.val) = Len(args.plaintext)
  /\ pc = "xtsDecrypted" => dec = Ok(args.plaintext)

-----------------------------------------------------------------------------
(* Scenario 5: key wrapping.  A key is wrapped, then the result is         *)
(* unwrapped (TKW: under the same tweak).                                  *)

WrapLens == 0..(8 * MaxBlocks + 1)

WrapConfigs ==
  [mode : {"kw"}, len : {n \in 0..(8 * MaxBlocks + 16) : n % 8 = 0}, tweakLen : {0}]
  \cup [mode : {"kwp"}, len : WrapLens, tweakLen : {0}]
  \cup [mode : {"tkw"}, len : WrapLens, tweakLen : {0, 3, 8, 13}]

Wrap_new(c) ==
  CASE c.mode = "kw" -> KW_new(Key16)
    [] c.mode = "kwp" -> KWP_new(Key16)
    [] c.mode = "tkw" -> TKW_new(Key16)

WrapInit ==
  /\ pc = "wrap"
  /\ cfg \in WrapConfigs
  /\ args = [plaintextKey |-> Sample(cfg.len, 60), tweak |-> Sample(cfg.tweakLen, 7)]
  /\ inst = [E |-> Wrap_new(cfg)]
  /\ enc = None
  /\ dargs = None
  /\ dec = None

\* wrap(plaintextKey) / wrap(plaintextKey, tweak)
Wrap ==
  /\ pc = "wrap"
  /\ enc' = CASE cfg.mode = "kw" -> KW_wrap(inst.E, args.plaintextKey)
              [] cfg.mode = "kwp" -> KWP_wrap(inst.E, args.plaintextKey)
              [] cfg.mode = "tkw" -> TKW_wrap(inst.E, args.plaintextKey, args.tweak)
  /\ pc' = "wrapped"
  /\ UNCHANGED <<cfg, args, dargs, dec, inst>>

\* unwrap(wrappedKey) / unwrap(wrappedKey, tweak) of what wrap returned
Unwrap ==
  /\ pc = "wrapped"
  /\ enc.kind = "ok"
  /\ dargs' = [wrappedKey |-> enc.val, tweak |-> args.tweak]
  /\ dec' = CASE cfg.mode = "kw" -> KW_unwrap(inst.E, enc.val)
              [] cfg.mode = "kwp" -> KWP_unwrap(inst.E, enc.val)
              [] cfg.mode = "tkw" -> TKW_unwrap(inst.E, enc.val, args.tweak)
  /\ pc' = "unwrapped"
  /\ UNCHANGED <<cfg, args, enc, inst>>

WrapNext == Wrap \/ Unwrap

SpecWrap == WrapInit /\ [][WrapNext]_vars

\* C9: for every key whose length is a multiple of 8 bytes, KW.wrap returns
\* length + 8 bytes and KW.unwrap of them returns the key, neither null nor an error
C9_KwRoundTrip ==
  cfg.mode = "kw" =>
    /\ pc = "wrapped" \/ pc = "unwrapped" =>
         enc.kind = "ok" /\ Len(enc.val) = Len(args.plaintextKey) + 8
    /\ pc = "unwrapped" => dec = Ok(args.plaintextKey)

\* C10: KWP.unwrap(KWP.wrap(k)) = k and TKW.unwrap(TKW.wrap(k, t), t) = k for every key
\* length, 0 and non-multiples of 8 included, and every tweak length
C10_KwpTkwRoundTrip ==
  cfg.mode \in {"kwp", "tkw"} =>
    /\ pc = "wrapped" \/ pc = "unwrapped" => enc.kind = "ok"
    /\ pc = "unwrapped" => dec = Ok(args.plaintextKey)

C10_Witness ==
  /\ pc = "unwrapped" /\ cfg.mode = "tkw" /\ cfg.tweakLen = 13 /\ cfg.len % 8 = 5
  /\ dec = Ok(args.plaintextKey)


-----------------------------------------------------------------------------
(* Scenario 6: TKW under another tweak.  A key is wrapped under a tweak,   *)
(* then the result is unwrapped under a tweak that differs from it.        *)

\* tweaks that differ in content, in length, or only in trailing zero bytes
TweakChoices ==
  {<<>>, <<1, 2, 3>>, <<1, 2, 3, 0>>, <<1, 2, 4>>, <<0, 0, 0, 0>>, Sample(8, 7),
   Sample(8, 7) \o <<0>>, Sample(13, 7)}

TweakInit ==
  /\ pc = "tweak"
  /\ cfg \in [mode : {"tkw"}, len : 0..(4 * MaxBlocks + 1)]
  /\ \E t \in TweakChoices, t2 \in TweakChoices :
       /\ t2 # t
       /\ args = [plaintextKey |-> Sample(cfg.len, 60), tweak |-> t, other |-> t2]
  /\ inst = [E |-> TKW_new(Key16)]
  /\ enc = None
  /\ dargs = None
  /\ dec = None

\* wrap(plaintextKey, tweak)
TweakWrap ==
  /\ pc = "tweak"
  /\ enc' = TKW_wrap(inst.E, args.plaintextKey, args.tweak)
  /\ pc' = "tweakWrapped"
  /\ UNCHANGED <<cfg, args, dargs, dec, inst>>

\* unwrap(wrappedKey, other) with a tweak that is not the one given to wrap
TweakUnwrapOther ==
  /\ pc = "tweakWrapped"
  /\ enc.kind = "ok"
  /\ dargs' = [wrappedKey |-> enc.val, tweak |-> args.other]
  /\ dec' = TKW_unwrap(inst.E, enc.val, args.other)
  /\ pc' = "unwrappedOther"
  /\ UNCHANGED <<cfg, args, enc, inst>>

TweakNext == TweakWrap \/ TweakUnwrapOther

SpecTweak == TweakInit /\ [][TweakNext]_vars

\* C11: TKW.unwrap(TKW.wrap(k, t), t2) returns null for every tweak t2 that is not
\* byte-for-byte equal to t, a t2 of another length included
C11_TkwOtherTweakRejected ==
  pc = "unwrappedOther" => dec = Null

\* ---------------------------------------------------------------------------
\* FF1 format-preserving encryption (modes/fpe-ff1.ts).
\* A string is the sequence of its UTF-16 code units. A BigInt is held either
\* as a big-endian byte sequence or as its numerals in base radix, so every
\* intermediate value stays below 2^31.
\* ---------------------------------------------------------------------------

\* String iteration pairs a high surrogate with the low surrogate after it.
FF1_isHigh(c) == c \in 55296..56319

FF1_isLow(c) == c \in 56320..57343

FF1_isContinuation(s, i) == i > 1 /\ FF1_isLow(s[i]) /\ FF1_isHigh(s[i - 1])

FF1_codePoint(s, i) ==
  IF FF1_isHigh(s[i]) /\ i < Len(s) /\ FF1_isLow(s[i + 1]) THEN <<s[i], s[i + 1]>> ELSE <<s[i]>>

\* Array.from(alphabet): one entry per code point.
ArrayFrom(s) ==
  LET starts == SelectSeq([i \in 1..Len(s) |-> i], LAMBDA i : ~FF1_isContinuation(s, i))
  IN  [k \in 1..Len(starts) |-> FF1_codePoint(s, starts[k])]

\* Math.ceil(Math.log(1000000) / Math.log(radix)), computed exactly.
RECURSIVE FF1_ceilLog(_, _)
FF1_ceilLog(x, radix) ==
  IF x <= 1 THEN 0 ELSE 1 + FF1_ceilLog((x + radix - 1) \div radix, radix)

FF1_minLen(radix) ==
  IF FF1_ceilLog(1000000, radix) > 2 THEN FF1_ceilLog(1000000, radix) ELSE 2

FF1_rejects(key, alphabet) ==
  Len(key) \notin {16, 24, 32} \/ Len(alphabet) < 2 \/ Len(alphabet) > 65536

FF1_new(key, alphabet) ==
  [mode |-> "fpe-ff1", aes |-> AES(key), radix |-> Len(alphabet),
   minLen |-> FF1_minLen(Len(alphabet)), numToChar |-> ArrayFrom(alphabet)]

\* charToNum.get(ch) for the one-unit string ch; -1 stands for undefined.
FF1_charToNum(f, ch) ==
  LET ks == {k \in 1..Len(f.numToChar) : f.numToChar[k] = <<ch>>}
  IN  IF ks = {} THEN -1 ELSE (CHOOSE k \in ks : \A j \in ks : j <= k) - 1

FF1_inAlphabet(f, input) == \A i \in 1..Len(input) : FF1_charToNum(f, input[i]) # -1

FF1_stringToNumerals(f, input) == [i \in 1..Len(input) |-> FF1_charToNum(f, input[i])]

\* The text that string concatenation gives for a missing array entry.
Undefined == <<117, 110, 100, 101, 102, 105, 110, 101, 100>>

FF1_numToChar(f, n) == IF n + 1 <= Len(f.numToChar) THEN f.numToChar[n + 1] ELSE Undefined

RECURSIVE FF1_concat(_, _, _)
FF1_concat(f, input, r) ==
  IF r.i > Len(input) THEN r.str
  ELSE FF1_concat(f, input, [str |-> r.str \o FF1_numToChar(f, input[r.i]), i |-> r.i + 1])

FF1_numeralsToString(f, input) == FF1_concat(f, input, [str |-> <<>>, i |-> 1])

\* num * radix + n on a fixed-width big-endian byte sequence.
RECURSIVE FF1_mulAdd(_, _, _)
FF1_mulAdd(num, radix, r) ==
  IF r.i = 0 THEN r.out
  ELSE FF1_mulAdd(num, radix, [out |-> <<(num[r.i] * radix + r.carry) % 256>> \o r.out,
                               carry |-> (num[r.i] * radix + r.carry) \div 256, i |-> r.i - 1])

RECURSIVE FF1_horner(_, _, _)
FF1_horner(numerals, radix, r) ==
  IF r.i > Len(numerals) THEN r.num
  ELSE FF1_horner(numerals, radix,
         [num |-> FF1_mulAdd(r.num, radix, [out |-> <<>>, carry |-> numerals[r.i], i |-> Len(r.num)]),
          i |-> r.i + 1])

\* The value of the numerals, as 2 * Len(numerals) bytes (radix <= 2^16).
FF1_numeralsToBigInt(numerals, radix) ==
  FF1_horner(numerals, radix, [num |-> Zeros(2 * Len(numerals)), i |-> 1])

\* The low numBytes bytes of num.
FF1_bigIntToBytes(num, numBytes) ==
  IF Len(num) >= numBytes THEN SubSeq(num, Len(num) - numBytes + 1, Len(num))
  ELSE Zeros(numBytes - Len(num)) \o num

\* One long division of a byte sequence by radix: quotient bytes and remainder.
RECURSIVE FF1_divide(_, _, _)
FF1_divide(num, radix, r) ==
  IF r.i > Len(num) THEN r
  ELSE FF1_divide(num, radix, [q |-> r.q \o <<(r.rem * 256 + num[r.i]) \div radix>>,
                               rem |-> (r.rem * 256 + num[r.i]) % radix, i |-> r.i + 1])

FF1_numeralStep(r, dv) == [num |-> dv.q, out |-> <<dv.rem>> \o r.out, i |-> r.i - 1]

RECURSIVE FF1_numeralLoop(_, _)
FF1_numeralLoop(radix, r) ==
  IF r.i < 0 THEN r.out
  ELSE FF1_numeralLoop(radix, FF1_numeralStep(r, FF1_divide(r.num, radix, [q |-> <<>>, rem |-> 0, i |-> 1])))

\* The last `length` numerals of num, that is num mod radix^length.
FF1_bigIntToNumerals(num, radix, length) ==
  FF1_numeralLoop(radix, [num |-> num, out |-> <<>>, i |-> length - 1])

\* (numA + y) % radix_m on numerals of equal length.
RECURSIVE FF1_addLoop(_, _, _, _)
FF1_addLoop(a, y, radix, r) ==
  IF r.i = 0 THEN r.out
  ELSE FF1_addLoop(a, y, radix, [out |-> <<(a[r.i] + y[r.i] + r.carry) % radix>> \o r.out,
                                 carry |-> (a[r.i] + y[r.i] + r.carry) \div radix, i |-> r.i - 1])

FF1_addMod(a, y, radix) == FF1_addLoop(a, y, radix, [out |-> <<>>, carry |-> 0, i |-> Len(a)])

\* (numB - y) % radix_m, made non-negative, on numerals of equal length.
RECURSIVE FF1_subLoop(_, _, _, _)
FF1_subLoop(b, y, radix, r) ==
  IF r.i = 0 THEN r.out
  ELSE FF1_subLoop(b, y, radix,
         [out |-> <<(b[r.i] - y[r.i] - r.borrow + radix) % radix>> \o r.out,
          borrow |-> IF b[r.i] - y[r.i] - r.borrow < 0 THEN 1 ELSE 0, i |-> r.i - 1])

FF1_subMod(b, y, radix) == FF1_subLoop(b, y, radix, [out |-> <<>>, borrow |-> 0, i |-> Len(b)])

\* _prf: CBC-MAC with a zero IV over zero-filled 16-byte blocks.
FF1_prfBlock(data, i) == set(Zeros(16), subarray(data, 16 * i, 16 * i + 16), 0)

FF1_prfStep(f, data, r) ==
  [mac |-> AES_encrypt(f.aes, xor(FF1_prfBlock(data, r.i), r.mac)), i |-> r.i + 1]

RECURSIVE FF1_prfLoop(_, _, _)
FF1_prfLoop(f, data, r) ==
  IF r.i >= (Len(data) + 15) \div 16 THEN r.mac ELSE FF1_prfLoop(f, data, FF1_prfStep(f, data, r))

FF1_prf(f, data) == FF1_prfLoop(f, data, [mac |-> Zeros(16), i |-> 0])

numRounds == 10

RECURSIVE FF1_significant(_)
FF1_significant(num) ==
  IF num = <<>> THEN 0 ELSE IF num[1] # 0 THEN Len(num) ELSE FF1_significant(Tail(num))

\* Math.ceil((v * Math.log2(radix)) / 8) || 1: the bytes that hold radix^v - 1.
FF1_b(v, radix) ==
  IF FF1_significant(FF1_numeralsToBigInt([i \in 1..v |-> radix - 1], radix)) = 0 THEN 1
  ELSE FF1_significant(FF1_numeralsToBigInt([i \in 1..v |-> radix - 1], radix))

FF1_d(b) == 4 * ((b + 3) \div 4) + 4

FF1_P(radix, u, n, tLen) ==
  <<1, 2, 1, shr(radix, 8) % 256, radix % 256, 10, u % 256,
    shr(n, 24) % 256, shr(n, 16) % 256, shr(n, 8) % 256, n % 256,
    shr(tLen, 24) % 256, shr(tLen, 16) % 256, shr(tLen, 8) % 256, tLen % 256, 0>>

FF1_qPadLen(tLen, b) == (16 - ((tLen + b + 1) % 16)) % 16

FF1_Q(tweak, round, b, numPrfInput) ==
  tweak \o Zeros(FF1_qPadLen(Len(tweak), b)) \o <<round>> \o FF1_bigIntToBytes(numPrfInput, b)

FF1_counterBlock(R, j) ==
  [k \in 1..16 |-> IF k >= 13 THEN bxor(R[k], shr(j, 8 * (16 - k)) % 256) ELSE R[k]]

FF1_SStep(f, R, d, r) ==
  [S |-> r.S \o subarray(AES_encrypt(f.aes, FF1_counterBlock(R, r.j)), 0, d - Len(r.S)), j |-> r.j + 1]

RECURSIVE FF1_SLoop(_, _, _, _)
FF1_SLoop(f, R, d, r) ==
  IF r.j >= (d + 15) \div 16 \/ Len(r.S) >= d THEN r.S ELSE FF1_SLoop(f, R, d, FF1_SStep(f, R, d, r))

FF1_S(f, R, d) ==
  IF d <= 16 THEN subarray(R, 0, d) ELSE FF1_SLoop(f, R, d, [S |-> R, j |-> 1])

FF1_round(i, isEncrypt) == IF isEncrypt THEN i ELSE numRounds - 1 - i

FF1_m(round, u, v) == IF round % 2 = 0 THEN u ELSE v

FF1_C(f, r, y, m, isEncrypt) ==
  IF isEncrypt THEN FF1_addMod(r.A, FF1_bigIntToNumerals(y, f.radix, m), f.radix)
  ELSE FF1_subMod(r.B, FF1_bigIntToNumerals(y, f.radix, m), f.radix)

FF1_swap(r, C, isEncrypt) ==
  IF isEncrypt THEN [A |-> r.B, B |-> C, i |-> r.i + 1] ELSE [A |-> C, B |-> r.A, i |-> r.i + 1]

FF1_prfInput(f, r, isEncrypt) ==
  FF1_numeralsToBigInt(IF isEncrypt THEN r.B ELSE r.A, f.radix)

FF1_y(f, tweak, P, r, isEncrypt, b, d) ==
  FF1_S(f, FF1_prf(f, P \o FF1_Q(tweak, FF1_round(r.i, isEncrypt), b, FF1_prfInput(f, r, isEncrypt))), d)

FF1_roundStep(f, tweak, P, r, isEncrypt, b, d, u, v) ==
  FF1_swap(r, FF1_C(f, r, FF1_y(f, tweak, P, r, isEncrypt, b, d),
                    FF1_m(FF1_round(r.i, isEncrypt), u, v), isEncrypt), isEncrypt)

RECURSIVE FF1_rounds(_, _, _, _, _, _, _, _, _)
FF1_rounds(f, tweak, P, r, isEncrypt, b, d, u, v) ==
  IF r.i >= numRounds THEN r
  ELSE FF1_rounds(f, tweak, P, FF1_roundStep(f, tweak, P, r, isEncrypt, b, d, u, v), isEncrypt, b, d, u, v)

FF1_split(f, text, u) ==
  [A |-> FF1_stringToNumerals(f, SubSeq(text, 1, u)),
   B |-> FF1_stringToNumerals(f, SubSeq(text, u + 1, Len(text))), i |-> 0]

FF1_join(f, r) == Ok(FF1_numeralsToString(f, r.A \o r.B))

FF1_run(f, text, tweak, isEncrypt, u, v, b) ==
  FF1_join(f, FF1_rounds(f, tweak, FF1_P(f.radix, u, Len(text), Len(tweak)), FF1_split(f, text, u),
                         isEncrypt, b, FF1_d(b), u, v))

_ff1(f, text, tweak, isEncrypt) ==
  IF Len(text) < f.minLen THEN Error
  ELSE IF ~FF1_inAlphabet(f, text) THEN Error
  ELSE FF1_run(f, text, tweak, isEncrypt, Len(text) \div 2, Len(text) - (Len(text) \div 2),
               FF1_b(Len(text) - (Len(text) \div 2), f.radix))

FF1_encrypt(f, plaintext, tweak) == _ff1(f, plaintext, tweak, TRUE)

FF1_decrypt(f, ciphertext, tweak) == _ff1(f, ciphertext, tweak, FALSE)

\* ---------------------------------------------------------------------------
\* Scenario: FF1 over several alphabets; encrypt a text, then decrypt the
\* result with the same object and tweak.
\* ---------------------------------------------------------------------------

Binary == <<48, 49>>

Digits == [i \in 1..10 |-> 47 + i]

Wide == [i \in 1..1000 |-> 255 + i]

\* The ten digits and U+1F600, a character outside the basic plane.
DigitsAndFace == Digits \o <<55357, 56832>>

Alphabets == [binary |-> Binary, digits |-> Digits, wide |-> Wide, face |-> DigitsAndFace]

TextOver(chars, n, seed) ==
  [i \in 1..n |-> chars[((seed + 7 * i + i * i + (i \div 3) * seed) % Len(chars)) + 1]]

TextOfCharacters(chars, n, seed) ==
  FF1_numeralsToString([numToChar |-> ArrayFrom(chars)], [i \in 1..n |-> (seed + 5 * i) % Len(ArrayFrom(chars))])

FF1Lengths ==
  [binary |-> {20, 21}, digits |-> {6, 7, 16}, wide |-> {2, 3, 20}, face |-> {6, 7}]

FF1Seeds == 0..3

FF1Tweaks == {<<>>, Sample(8, 7), Sample(17, 3)}

FF1Init ==
  /\ pc = "ff1"
  /\ \E name \in DOMAIN Alphabets :
       /\ cfg = [mode |-> "fpe-ff1", alphabet |-> name]
       /\ \E n \in FF1Lengths[name], seed \in FF1Seeds, tweak \in FF1Tweaks :
            args = [text |-> IF name = "face" THEN TextOfCharacters(Alphabets[name], n, seed)
                             ELSE TextOver(Alphabets[name], n, seed),
                    tweak |-> tweak]
       /\ inst = [E |-> FF1_new(Key16, Alphabets[name])]
  /\ enc = None
  /\ dargs = None
  /\ dec = None

FF1Encrypt ==
  /\ pc = "ff1"
  /\ enc' = FF1_encrypt(inst.E, args.text, args.tweak)
  /\ pc' = "ff1Encrypted"
  /\ UNCHANGED <<cfg, args, dargs, dec, inst>>

FF1Decrypt ==
  /\ pc = "ff1Encrypted"
  /\ enc.kind = "ok"
  /\ dargs = None
  /\ dargs' = [text |-> enc.val, tweak |-> args.tweak]
  /\ dec' = FF1_decrypt(inst.E, enc.val, args.tweak)
  /\ pc' = "ff1Decrypted"
  /\ UNCHANGED <<cfg, args, enc, inst>>

FF1Next == FF1Encrypt \/ FF1Decrypt

SpecFF1 == FF1Init /\ [][FF1Next]_vars

\* Every unit sequence of s is a concatenation of alphabet characters.
RECURSIVE FF1_overAlphabet(_, _)
FF1_overAlphabet(chars, s) ==
  \/ s = <<>>
  \/ \E k \in 1..Len(chars) :
       /\ Len(chars[k]) <= Len(s)
       /\ SubSeq(s, 1, Len(chars[k])) = chars[k]
       /\ FF1_overAlphabet(chars, SubSeq(s, Len(chars[k]) + 1, Len(s)))

\* C12: for every alphabet of 2 to 65536 distinct characters, every tweak and
\* every text over the alphabet of at least the minimum length, FF1 encrypt
\* returns a string of the same length made only of alphabet characters, and
\* decrypt of it with the same key and tweak returns the original text.
C12_Ff1RoundTrip ==
  /\ pc \in {"ff1Encrypted", "ff1Decrypted"} =>
       /\ enc.kind = "ok"
       /\ Len(enc.val) = Len(args.text)
       /\ FF1_overAlphabet(inst.E.numToChar, enc.val)
  /\ pc = "ff1Decrypted" => dec = Ok(args.text)

\* The same statement for the alphabets whose characters are single code units.
C12_BasicPlaneRoundTrip == cfg.alphabet # "face" => C12_Ff1RoundTrip

C12_BasicPlaneWitness ==
  /\ pc = "ff1Decrypted"
  /\ cfg.alphabet = "wide"
  /\ Len(args.text) = 20
  /\ dec = Ok(args.text)
  /\ enc.val # args.text

\* ---------------------------------------------------------------------------
\* CBC-MAC (ModeOfOperationCBC_MAC) and CMAC (modes/cmac.ts).
\* ---------------------------------------------------------------------------

\* verifyTag's comparison: the byte XORs are OR-ed and the result tested for 0.
MAC_tagsEqual_IgnoresLastByte(tag, expectedTag) ==
  Len(tag) = Len(expectedTag) /\ \A i \in 1..(Len(tag) - 1) : bxor(tag[i], expectedTag[i]) = 0

MAC_tagsEqual(tag, expectedTag) ==
  Len(tag) = Len(expectedTag) /\ \A i \in 1..Len(tag) : bxor(tag[i], expectedTag[i]) = 0

CBCMAC_new(key) == [mode |-> "cbc-mac", aes |-> AES(key)]

CBCMAC_pad(message) ==
  [set(Zeros(Len(message) - (Len(message) % 16) + 16), message, 0) EXCEPT ![Len(message) + 1] = 128]

CBCMAC_dataToProcess(message) ==
  IF Len(message) % 16 = 0 /\ Len(message) > 0 THEN message ELSE CBCMAC_pad(message)

CBCMAC_step(c, data, r) ==
  [lastCipherBlock |-> AES_encrypt(c.aes, xor(r.lastCipherBlock, subarray(data, r.i, r.i + 16))),
   i |-> r.i + 16]

RECURSIVE CBCMAC_loop(_, _, _)
CBCMAC_loop(c, data, r) ==
  IF r.i >= Len(data) THEN r.lastCipherBlock ELSE CBCMAC_loop(c, data, CBCMAC_step(c, data, r))

CBCMAC_generateTag(c, message, tagSize) ==
  IF tagSize > 16 THEN Error
  ELSE Ok(subarray(CBCMAC_loop(c, CBCMAC_dataToProcess(message), [lastCipherBlock |-> Zeros(16), i |-> 0]),
                   0, tagSize))

MAC_compare(tag, expectedTag) ==
  IF expectedTag.kind # "ok" THEN Error ELSE Ok(MAC_tagsEqual(tag, expectedTag.val))

CBCMAC_verifyTag(c, message, tag) == MAC_compare(tag, CBCMAC_generateTag(c, message, Len(tag)))

CMAC_double(block) ==
  [i \in 1..16 |->
     IF i < 16 THEN ((block[i] * 2) % 256) + (block[i + 1] \div 128)
     ELSE bxor((block[16] * 2) % 256, IF block[1] >= 128 THEN 135 ELSE 0)]

CMAC_generateSubkey(aes, index) ==
  IF index = 2 THEN CMAC_double(CMAC_double(AES_encrypt(aes, Zeros(16))))
  ELSE CMAC_double(AES_encrypt(aes, Zeros(16)))

CMAC_withAES(aes) ==
  [mode |-> "cmac", aes |-> aes, K1 |-> CMAC_generateSubkey(aes, 1), K2 |-> CMAC_generateSubkey(aes, 2)]

CMAC_new(key) == CMAC_withAES(AES(key))

\* Math.ceil((message.length + 1) / 16) || 1
CMAC_n(message) == (Len(message) + 1 + 15) \div 16

CMAC_processedMessage(message) ==
  IF Len(message) = 0 \/ Len(message) % 16 # 0
  THEN [set(Zeros(CMAC_n(message) * 16), message, 0) EXCEPT ![Len(message) + 1] = 128]
  ELSE set(Zeros(CMAC_n(message) * 16), message, 0)

CMAC_lastBlock(c, message, processedMessage) ==
  xor(subarray(processedMessage, Len(processedMessage) - 16, Len(processedMessage)),
      IF Len(message) = 0 \/ Len(message) % 16 # 0 THEN c.K2 ELSE c.K1)

CMAC_step(c, processedMessage, r) ==
  [X |-> AES_encrypt(c.aes, xor(r.X, subarray(processedMessage, r.i * 16, (r.i + 1) * 16))), i |-> r.i + 1]

RECURSIVE CMAC_loop(_, _, _, _)
CMAC_loop(c, processedMessage, n, r) ==
  IF r.i >= n - 1 THEN r.X ELSE CMAC_loop(c, processedMessage, n, CMAC_step(c, processedMessage, r))

CMAC_T(c, message, processedMessage) ==
  AES_encrypt(c.aes, xor(CMAC_loop(c, processedMessage, CMAC_n(message), [X |-> Zeros(16), i |-> 0]),
                         CMAC_lastBlock(c, message, processedMessage)))

CMAC_generateTag(c, message, tagSize) ==
  IF tagSize > 16 THEN Error
  ELSE Ok(subarray(CMAC_T(c, message, CMAC_processedMessage(message)), 0, tagSize))

CMAC_verifyTag(c, message, tag) == MAC_compare(tag, CMAC_generateTag(c, message, Len(tag)))

\* ---------------------------------------------------------------------------
\* Scenario: tag a message, then tag it again (same object or a new object of
\* the same key), verify the tag, or verify a tag of the same length that
\* differs from it.
\* ---------------------------------------------------------------------------

MAC_new(mode, key) == IF mode = "cmac" THEN CMAC_new(key) ELSE CBCMAC_new(key)

MAC_generateTag(c, message, tagSize) ==
  IF c.mode = "cmac" THEN CMAC_generateTag(c, message, tagSize)
  ELSE CBCMAC_generateTag(c, message, tagSize)

MAC_verifyTag(c, message, tag) ==
  IF c.mode = "cmac" THEN CMAC_verifyTag(c, message, tag) ELSE CBCMAC_verifyTag(c, message, tag)

MacLengths == {0, 1, 15} \cup UNION {{16 * k - 1, 16 * k, 16 * k + 1} : k \in 1..MaxBlocks}

MacTagSizes == 1..16

\* Tags of the same length that differ from tag in one bit or in every bit.
Forgeries(tag) ==
  {FlipBit(tag, b) : b \in {0, 7, 8 * Len(tag) - 8, 8 * Len(tag) - 1}}
    \cup {[i \in 1..Len(tag) |-> 255 - tag[i]]}

MacInit ==
  /\ pc = "mac"
  /\ cfg \in [mode : {"cbc-mac", "cmac"}, len : MacLengths, tagSize : MacTagSizes]
  /\ args = [message |-> Sample(cfg.len, 23)]
  /\ inst = [E |-> MAC_new(cfg.mode, Key16)]
  /\ enc = None
  /\ dargs = None
  /\ dec = None

MacGenerate ==
  /\ pc = "mac"
  /\ enc' = MAC_generateTag(inst.E, args.message, cfg.tagSize)
  /\ pc' = "tagged"
  /\ UNCHANGED <<cfg, args, dargs, dec, inst>>

MacRegenerate ==
  /\ pc = "tagged"
  /\ dec' = MAC_generateTag(inst.E, args.message, cfg.tagSize)
  /\ pc' = "regenerated"
  /\ UNCHANGED <<cfg, args, enc, dargs, inst>>

MacRegenerateFresh ==
  /\ pc = "tagged"
  /\ dec' = MAC_generateTag(MAC_new(cfg.mode, Key16), args.message, cfg.tagSize)
  /\ pc' = "regeneratedFresh"
  /\ UNCHANGED <<cfg, args, enc, dargs, inst>>

MacVerify ==
  /\ pc = "tagged"
  /\ enc.kind = "ok"
  /\ dargs' = [message |-> args.message, tag |-> enc.val]
  /\ dec' = MAC_verifyTag(inst.E, args.message, enc.val)
  /\ pc' = "verified"
  /\ UNCHANGED <<cfg, args, enc, inst>>

MacVerifyForged ==
  /\ pc = "tagged"
  /\ enc.kind = "ok"
  /\ \E tag \in Forgeries(enc.val) :
       /\ dargs' = [message |-> args.message, tag |-> tag]
       /\ dec' = MAC_verifyTag(inst.E, args.message, tag)
  /\ pc' = "forgedVerified"
  /\ UNCHANGED <<cfg, args, enc, inst>>

MacNext == MacGenerate \/ MacRegenerate \/ MacRegenerateFresh \/ MacVerify \/ MacVerifyForged

SpecMac == MacInit /\ [][MacNext]_vars

\* C13: for CBC-MAC and CMAC, every message (the empty one included) and every
\* tag size from 1 to 16, generateTag returns the same tag on every call with
\* the same key and message, verifyTag accepts that tag, and verifyTag rejects
\* every tag of the same length that differs from it in at least one bit.
C13_MacTagContract ==
  /\ pc # "mac" => enc.kind = "ok" /\ Len(enc.val) = cfg.tagSize
  /\ pc \in {"regenerated", "regeneratedFresh"} => dec = enc
  /\ pc = "verified" => dec = Ok(TRUE)
  /\ pc = "forgedVerified" => dargs.tag # enc.val /\ Len(dargs.tag) = Len(enc.val) /\ dec = Ok(FALSE)

C13_Witness ==
  /\ pc = "forgedVerified"
  /\ cfg.mode = "cmac"
  /\ cfg.len = 0
  /\ cfg.tagSize = 16
  /\ dargs.tag = FlipBit(enc.val, 127)
  /\ dec = Ok(FALSE)

\* ---------------------------------------------------------------------------
\* ModeOfOperationHybridCTR (modes/tkw.ts:169-319).
\* ---------------------------------------------------------------------------

\* An optional argument that was not passed (undefined).
Absent == <<-1>>

\* new Counter(bytes) throws unless it gets 16 bytes.
Counter_rejects(initialValue) == Len(initialValue) # 16

HCTR_rejects(key, tagSize) == Len(key) \notin {16, 24, 32} \/ tagSize < 8 \/ tagSize > 16

HCTR_new(key, tagSize) == [mode |-> "hybrid-ctr", aes |-> AES(key), key |-> key, tagSize |-> tagSize]

\* XOR of E(block) over the zero-filled 16-byte blocks of data into acc.
HCTR_absorbStep(h, data, r) ==
  [acc |-> xor(r.acc, AES_encrypt(h.aes, set(Zeros(16), subarray(data, r.i, r.i + 16), 0))), i |-> r.i + 16]

RECURSIVE HCTR_absorb(_, _, _)
HCTR_absorb(h, data, r) ==
  IF r.i >= Len(data) THEN r.acc ELSE HCTR_absorb(h, data, HCTR_absorbStep(h, data, r))

HCTR_generateSyntheticNonce(h, plaintext, associatedData, tweak) ==
  HCTR_absorb(h, plaintext \o associatedData \o tweak, [acc |-> Zeros(16), i |-> 0])

HCTR_lenBytes(len) ==
  Zeros(12) \o <<shr(len, 24) % 256, shr(len, 16) % 256, shr(len, 8) % 256, len % 256>>

HCTR_component(h, tagBase, component) ==
  HCTR_absorb(h, component, [acc |-> xor(tagBase, AES_encrypt(h.aes, HCTR_lenBytes(Len(component)))), i |-> 0])

HCTR_tagBase(h, plaintext, nonce, associatedData, tweak) ==
  HCTR_component(h, HCTR_component(h, HCTR_component(h, HCTR_component(h, Zeros(16), plaintext), nonce),
                                   associatedData), tweak)

HCTR_createTag(h, plaintext, nonce, associatedData, tweak) ==
  subarray(AES_encrypt(h.aes, HCTR_tagBase(h, plaintext, nonce, associatedData, tweak)), 0, h.tagSize)

OkNonce(ciphertext, tag, nonce) == [kind |-> "ok", val |-> ciphertext, tag |-> tag, nonce |-> nonce]

HCTR_seal(h, plaintext, actualNonce, associatedData, tweak) ==
  IF Counter_rejects(xor(actualNonce, tweak)) THEN Error
  ELSE OkNonce(CTR_encrypt(CTR_new(h.key, Counter(xor(actualNonce, tweak))), plaintext).out.val,
               HCTR_createTag(h, plaintext, actualNonce, associatedData, tweak), actualNonce)

HCTR_encrypt(h, plaintext, nonce, associatedData, tweak) ==
  IF nonce = Absent
  THEN HCTR_seal(h, plaintext, HCTR_generateSyntheticNonce(h, plaintext, associatedData, tweak),
                 associatedData, tweak)
  ELSE HCTR_seal(h, plaintext, nonce, associatedData, tweak)

HCTR_verify(h, plaintext, tag, nonce, associatedData, tweak) ==
  IF tagsMatch(tag, HCTR_createTag(h, plaintext, nonce, associatedData, tweak), Len(tag))
  THEN Ok(plaintext) ELSE Null

HCTR_decrypt(h, ciphertext, tag, nonce, associatedData, tweak) ==
  IF Len(tag) # h.tagSize THEN Null
  ELSE IF Counter_rejects(xor(nonce, tweak)) THEN Error
  ELSE HCTR_verify(h, CTR_decrypt(CTR_new(h.key, Counter(xor(nonce, tweak))), ciphertext).out.val,
                   tag, nonce, associatedData, tweak)

\* ---------------------------------------------------------------------------
\* HighLevelAES (high-level.ts).
\* ---------------------------------------------------------------------------

HL_rejects(mode, key) ==
  IF mode = "xts" THEN Len(key) \notin {32, 64} ELSE Len(key) \notin {16, 24, 32}

\* tagSize 0 stands for a tag size that was not given: `this.tagSize || 16`
\* treats both alike.
HL_new(mode, key, tagSize) == [mode |-> mode, key |-> key, tagSize |-> tagSize]

HL_tagSize(h) == IF h.tagSize = 0 THEN 16 ELSE h.tagSize

\* a || b for optional byte arrays (every array, empty or not, is truthy)
OrElse(a, b) == IF a # Absent THEN a ELSE b

NoOptions == [iv |-> Absent, aad |-> Absent, nonce |-> Absent, tweak |-> Absent, tag |-> Absent]

HLResult(ciphertext, tag, iv) == [kind |-> "ok", val |-> ciphertext, tag |-> tag, iv |-> iv]

\* { ciphertext, iv } of a mode that returns the ciphertext alone
HL_plain(out, iv) == IF out.kind = "ok" THEN HLResult(out.val, Absent, iv) ELSE Error

\* { ciphertext, tag, iv } of a mode that returns ciphertext and tag
HL_tagged(r, iv) == IF r.kind = "ok" THEN HLResult(r.val, r.tag, iv) ELSE Error

\* result || handleDecryptionFailure(...): null becomes an error
HL_orFail(r) == IF r.kind = "null" THEN Error ELSE r

padPkcs7(data) ==
  data \o [i \in 1..(16 - (Len(data) % 16)) |-> 16 - (Len(data) % 16)]

unpadPkcs7(data) ==
  IF Len(data) = 0 THEN data
  ELSE IF data[Len(data)] > 16 THEN data
  ELSE SubSeq(data, 1, Len(data) - data[Len(data)])

HL_unpad(out) == IF out.kind = "ok" THEN Ok(unpadPkcs7(out.val)) ELSE out

\* generateRandomIv(length): the bytes drawn, named by the seed of the draw
generateRandomIv(length, seed) == Sample(length, seed)

\* the constructors of CBC, CFB and OFB throw on an IV that is not 16 bytes
Iv_rejects(iv) == Len(iv) # 16

HL_encryptECB(h, plaintext) == HL_plain(ECB_encrypt(ECB_new(h.key), padPkcs7(plaintext)).out, Absent)

HL_decryptECB(h, ciphertext) == HL_unpad(ECB_decrypt(ECB_new(h.key), ciphertext).out)

HL_encryptCBC(h, plaintext, actualIv) ==
  IF Iv_rejects(actualIv) THEN Error
  ELSE HL_plain(CBC_encrypt(CBC_new(h.key, actualIv), padPkcs7(plaintext)).out, actualIv)

HL_decryptCBC(h, ciphertext, iv) ==
  IF iv = Absent \/ Iv_rejects(iv) THEN Error
  ELSE HL_unpad(CBC_decrypt(CBC_new(h.key, iv), ciphertext).out)

HL_encryptCTR(h, plaintext, actualIv) ==
  IF Counter_rejects(actualIv) THEN Error
  ELSE HL_plain(CTR_encrypt(CTR_new(h.key, Counter(actualIv)), plaintext).out, actualIv)

HL_decryptCTR(h, ciphertext, iv) ==
  IF iv = Absent \/ Counter_rejects(iv) THEN Error
  ELSE CTR_decrypt(CTR_new(h.key, Counter(iv)), ciphertext).out

HL_encryptCFB(h, plaintext, actualIv) ==
  IF Iv_rejects(actualIv) THEN Error
  ELSE HL_plain(CFB_encrypt(CFB_new(h.key, actualIv, 1), plaintext).out, actualIv)

HL_decryptCFB(h, ciphertext, iv) ==
  IF iv = Absent \/ Iv_rejects(iv) THEN Error
  ELSE CFB_decrypt(CFB_new(h.key, iv, 1), ciphertext).out

HL_encryptOFB(h, plaintext, actualIv) ==
  IF Iv_rejects(actualIv) THEN Error
  ELSE HL_plain(OFB_encrypt(OFB_new(h.key, actualIv), plaintext).out, actualIv)

HL_decryptOFB(h, ciphertext, iv) ==
  IF iv = Absent \/ Iv_rejects(iv) THEN Error
  ELSE OFB_decrypt(OFB_new(h.key, iv), ciphertext).out

HL_encryptGCM(h, plaintext, actualIv, aad) ==
  HL_tagged(GCM_encrypt(GCM_new(h.key, actualIv), plaintext, OrElse(aad, <<>>)), actualIv)

HL_decryptGCM(h, ciphertext, tag, iv, aad) ==
  IF iv = Absent THEN Error
  ELSE GCM_decrypt(GCM_new(h.key, iv), ciphertext, tag, OrElse(aad, <<>>))

HL_encryptCCM(h, plaintext, nonce, aad) ==
  IF nonce = Absent \/ CCM_rejects(HL_tagSize(h), 4) THEN Error
  ELSE HL_tagged(CCM_encrypt(CCM_new(h.key, HL_tagSize(h), 4), plaintext, nonce, OrElse(aad, <<>>)), nonce)

HL_decryptCCM(h, ciphertext, tag, nonce, aad) ==
  IF nonce = Absent \/ CCM_rejects(Len(tag), 4) THEN Error
  ELSE CCM_decrypt(CCM_new(h.key, Len(tag), 4), ciphertext, nonce, tag, OrElse(aad, <<>>))

HL_encryptEAX(h, plaintext, actualNonce, aad) ==
  IF EAX_rejects(HL_tagSize(h)) THEN Error
  ELSE HL_tagged(EAX_encrypt(EAX_new(h.key, HL_tagSize(h)), plaintext, actualNonce, OrElse(aad, <<>>)),
                 actualNonce)

HL_decryptEAX(h, ciphertext, tag, nonce, aad) ==
  IF nonce = Absent \/ EAX_rejects(Len(tag)) THEN Error
  ELSE EAX_decrypt(EAX_new(h.key, Len(tag)), ciphertext, tag, nonce, OrElse(aad, <<>>))

HL_encryptCWC(h, plaintext, actualIv, aad) ==
  IF CWC_rejects(h.key) THEN Error
  ELSE HL_tagged(CWC_encrypt(CWC_new(h.key), plaintext, actualIv, OrElse(aad, <<>>)), actualIv)

HL_decryptCWC(h, ciphertext, tag, iv, aad) ==
  IF iv = Absent \/ CWC_rejects(h.key) THEN Error
  ELSE CWC_decrypt(CWC_new(h.key), ciphertext, tag, iv, OrElse(aad, <<>>))

HL_encryptGCM_SIV(h, plaintext, nonce, aad) ==
  IF nonce = Absent \/ GCMSIV_rejects(h.key) THEN Error
  ELSE HL_tagged(GCMSIV_encrypt(GCMSIV_new(h.key), plaintext, nonce, OrElse(aad, <<>>)), nonce)

HL_decryptGCM_SIV(h, ciphertext, tag, nonce, aad) ==
  IF nonce = Absent \/ GCMSIV_rejects(h.key) THEN Error
  ELSE GCMSIV_decrypt(GCMSIV_new(h.key), ciphertext, tag, nonce, OrElse(aad, <<>>))

HL_encryptOCB(h, plaintext, nonce, aad) ==
  IF nonce = Absent \/ OCB_rejects(HL_tagSize(h)) THEN Error
  ELSE HL_tagged(OCB_encrypt(OCB_new(h.key, HL_tagSize(h)), plaintext, nonce, OrElse(aad, <<>>)), nonce)

HL_decryptOCB(h, ciphertext, tag, nonce, aad) ==
  IF nonce = Absent \/ OCB_rejects(Len(tag)) THEN Error
  ELSE OCB_decrypt(OCB_new(h.key, Len(tag)), ciphertext, tag, nonce, OrElse(aad, <<>>))

HL_encryptXTS(h, plaintext, tweak) ==
  IF tweak = Absent THEN Error ELSE HL_plain(XTS_encrypt(XTS_new(h.key), plaintext, tweak), Absent)

HL_decryptXTS(h, ciphertext, tweak) ==
  IF tweak = Absent THEN Error ELSE XTS_decrypt(XTS_new(h.key), ciphertext, tweak)

HL_encryptKW(h, plaintext) == HL_plain(KW_wrap(KW_new(h.key), plaintext), Absent)

HL_decryptKW(h, ciphertext) == KW_unwrap(KW_new(h.key), ciphertext)

HL_encryptKWP(h, plaintext) == HL_plain(KWP_wrap(KWP_new(h.key), plaintext), Absent)

HL_decryptKWP(h, ciphertext) == KWP_unwrap(KWP_new(h.key), ciphertext)

HL_macResult(tag) == IF tag.kind = "ok" THEN HLResult(<<>>, tag.val, Absent) ELSE Error

HL_generateCBC_MAC(h, plaintext) ==
  HL_macResult(CBCMAC_generateTag(CBCMAC_new(h.key), plaintext, HL_tagSize(h)))

HL_encryptPMAC_SIV(h, plaintext, actualNonce, aad) ==
  IF PMACSIV_rejects(HL_tagSize(h)) THEN Error
  ELSE HL_tagged(PMACSIV_encrypt(PMACSIV_new(h.key, HL_tagSize(h)), plaintext, actualNonce,
                                 OrElse(aad, <<>>)), actualNonce)

HL_decryptPMAC_SIV(h, ciphertext, tag, nonce, aad) ==
  IF nonce = Absent \/ PMACSIV_rejects(Len(tag)) THEN Error
  ELSE PMACSIV_decrypt(PMACSIV_new(h.key, Len(tag)), ciphertext, tag, nonce, OrElse(aad, <<>>))

HL_encryptTKW(h, plaintext, tweak) ==
  IF tweak = Absent THEN Error ELSE HL_plain(TKW_wrap(TKW_new(h.key), plaintext, tweak), Absent)

HL_decryptTKW(h, ciphertext, tweak) ==
  IF tweak = Absent THEN Error ELSE TKW_unwrap(TKW_new(h.key), ciphertext, tweak)

HL_hybridResult(r) == IF r.kind = "ok" THEN HLResult(r.val, r.tag, r.nonce) ELSE Error

HL_encryptHybridCTR(h, plaintext, nonce, aad, tweak) ==
  IF HCTR_rejects(h.key, HL_tagSize(h)) THEN Error
  ELSE HL_hybridResult(HCTR_encrypt(HCTR_new(h.key, HL_tagSize(h)), plaintext, nonce,
                                    OrElse(aad, <<>>), OrElse(tweak, Zeros(16))))

HL_decryptHybridCTR(h, ciphertext, tag, nonce, aad, tweak) ==
  IF HCTR_rejects(h.key, Len(tag)) THEN Error
  ELSE HCTR_decrypt(HCTR_new(h.key, Len(tag)), ciphertext, tag, nonce,
                    OrElse(aad, <<>>), OrElse(tweak, Zeros(16)))

\* encrypt(plaintext, options); seed names the bytes generateRandomIv draws
HL_encrypt(h, plaintext, options, seed) ==
  CASE h.mode = "ecb" -> HL_encryptECB(h, plaintext)
    [] h.mode = "cbc" -> HL_encryptCBC(h, plaintext, OrElse(options.iv, generateRandomIv(16, seed)))
    [] h.mode = "ctr" -> HL_encryptCTR(h, plaintext, OrElse(options.iv, generateRandomIv(16, seed)))
    [] h.mode = "cfb" -> HL_encryptCFB(h, plaintext, OrElse(options.iv, generateRandomIv(16, seed)))
    [] h.mode = "ofb" -> HL_encryptOFB(h, plaintext, OrElse(options.iv, generateRandomIv(16, seed)))
    [] h.mode = "gcm" ->
         HL_encryptGCM(h, plaintext, OrElse(options.iv, generateRandomIv(12, seed)), options.aad)
    [] h.mode = "ccm" -> HL_encryptCCM(h, plaintext, OrElse(options.nonce, options.iv), options.aad)
    [] h.mode = "eax" ->
         HL_encryptEAX(h, plaintext,
                       OrElse(OrElse(options.nonce, options.iv), generateRandomIv(16, seed)), options.aad)
    [] h.mode = "cwc" ->
         HL_encryptCWC(h, plaintext, OrElse(options.iv, generateRandomIv(16, seed)), options.aad)
    [] h.mode = "gcm-siv" ->
         HL_encryptGCM_SIV(h, plaintext, OrElse(options.nonce, options.iv), options.aad)
    [] h.mode = "ocb" -> HL_encryptOCB(h, plaintext, OrElse(options.nonce, options.iv), options.aad)
    [] h.mode = "xts" -> HL_encryptXTS(h, plaintext, options.tweak)
    [] h.mode = "kw" -> HL_encryptKW(h, plaintext)
    [] h.mode = "kwp" -> HL_encryptKWP(h, plaintext)
    [] h.mode = "cbc-mac" -> HL_generateCBC_MAC(h, plaintext)
    [] h.mode = "pmac-siv" ->
         HL_encryptPMAC_SIV(h, plaintext,
                            OrElse(OrElse(options.nonce, options.iv), generateRandomIv(16, seed)),
                            options.aad)
    [] h.mode = "tkw" -> HL_encryptTKW(h, plaintext, options.tweak)
    [] h.mode = "hybrid-ctr" ->
         HL_encryptHybridCTR(h, plaintext, OrElse(options.nonce, options.iv), options.aad, options.tweak)
    [] OTHER -> Error

HL_decryptTagged(h, ciphertext, options) ==
  CASE h.mode = "gcm" -> HL_decryptGCM(h, ciphertext, options.tag, options.iv, options.aad)
    [] h.mode = "ccm" ->
         HL_decryptCCM(h, ciphertext, options.tag, OrElse(options.nonce, options.iv), options.aad)
    [] h.mode = "eax" ->
         HL_decryptEAX(h, ciphertext, options.tag, OrElse(options.nonce, options.iv), options.aad)
    [] h.mode = "cwc" -> HL_decryptCWC(h, ciphertext, options.tag, options.iv, options.aad)
    [] h.mode = "gcm-siv" ->
         HL_decryptGCM_SIV(h, ciphertext, options.tag, OrElse(options.nonce, options.iv), options.aad)
    [] h.mode = "ocb" ->
         HL_decryptOCB(h, ciphertext, options.tag, OrElse(options.nonce, options.iv), options.aad)
    [] h.mode = "pmac-siv" ->
         HL_decryptPMAC_SIV(h, ciphertext, options.tag, OrElse(options.nonce, options.iv), options.aad)
    [] h.mode = "hybrid-ctr" ->
         IF options.nonce = Absent THEN Error
         ELSE HL_decryptHybridCTR(h, ciphertext, options.tag, options.nonce, options.aad, options.tweak)

HL_TaggedModes == {"gcm", "ccm", "eax", "cwc", "gcm-siv", "ocb", "pmac-siv", "hybrid-ctr"}

\* decrypt(ciphertext, options)
HL_decrypt(h, ciphertext, options) ==
  CASE h.mode = "ecb" -> HL_decryptECB(h, ciphertext)
    [] h.mode = "cbc" -> HL_decryptCBC(h, ciphertext, options.iv)
    [] h.mode = "ctr" -> HL_decryptCTR(h, ciphertext, options.iv)
    [] h.mode = "cfb" -> HL_decryptCFB(h, ciphertext, options.iv)
    [] h.mode = "ofb" -> HL_decryptOFB(h, ciphertext, options.iv)
    [] h.mode \in HL_TaggedModes ->
         IF options.tag = Absent THEN Error ELSE HL_orFail(HL_decryptTagged(h, ciphertext, options))
    [] h.mode = "xts" -> HL_decryptXTS(h, ciphertext, options.tweak)
    [] h.mode = "kw" -> HL_orFail(HL_decryptKW(h, ciphertext))
    [] h.mode = "kwp" -> HL_orFail(HL_decryptKWP(h, ciphertext))
    [] h.mode = "tkw" -> HL_orFail(HL_decryptTKW(h, ciphertext, options.tweak))
    [] OTHER -> Error

\* ---------------------------------------------------------------------------
\* Scenario: a HighLevelAES object of a mode that draws its own IV encrypts a
\* plaintext without options; the same object then decrypts the returned
\* ciphertext with the returned iv and tag.
\* ---------------------------------------------------------------------------

IvModes == {"cbc", "ctr", "cfb", "ofb", "gcm", "eax", "cwc", "pmac-siv"}

RandomSeeds == {0, 77}

HighInit ==
  /\ pc = "high"
  /\ cfg \in [mode : IvModes, len : 0..(16 * MaxBlocks + 1)]
  /\ args = [plaintext |-> Sample(cfg.len, 33), options |-> NoOptions]
  /\ inst = [E |-> HL_new(cfg.mode, Key16, 0)]
  /\ enc = None
  /\ dargs = None
  /\ dec = None

HighEncrypt ==
  /\ pc = "high"
  /\ \E seed \in RandomSeeds : enc' = HL_encrypt(inst.E, args.plaintext, args.options, seed)
  /\ pc' = "highEncrypted"
  /\ UNCHANGED <<cfg, args, dargs, dec, inst>>

HighDecrypt ==
  /\ pc = "highEncrypted"
  /\ enc.kind = "ok"
  /\ dargs' = [ciphertext |-> enc.val, options |-> [NoOptions EXCEPT !.iv = enc.iv, !.tag = enc.tag]]
  /\ dec' = HL_decrypt(inst.E, enc.val, [NoOptions EXCEPT !.iv = enc.iv, !.tag = enc.tag])
  /\ pc' = "highDecrypted"
  /\ UNCHANGED <<cfg, args, enc, inst>>

HighNext == HighEncrypt \/ HighDecrypt

SpecHigh == HighInit /\ [][HighNext]_vars

\* C14: for the HighLevelAES modes that generate the IV themselves (CBC, CTR,
\* CFB, OFB, GCM, EAX, CWC, PMAC-SIV), encrypt(p) without options succeeds and
\* returns the IV it used, and decrypt(result.ciphertext, {iv, tag}) on the same
\* object returns p, for every plaintext length.
C14_HighLevelOwnIvRoundTrip ==
  /\ pc \in {"highEncrypted", "highDecrypted"} => enc.kind = "ok" /\ enc.iv # Absent
  /\ pc = "highDecrypted" => dec = Ok(args.plaintext)

\* The same statement without CWC.
C14_OtherModesRoundTrip == cfg.mode # "cwc" => C14_HighLevelOwnIvRoundTrip

\* ---------------------------------------------------------------------------
\* Scenario: an object of an authenticated mode serves some earlier calls,
\* successful or failed; the next call is then made on it and on a new object
\* of the same key and parameters.
\* ---------------------------------------------------------------------------

\* An object on which new Counter(this.J0) shares the J0 array, so that the
\* increment of the counter moves J0 itself.
AEAD_afterCall_SharedCounter(i) ==
  IF i.mode = "gcm" THEN [i EXCEPT !.J0 = Counter_increment(i.J0)] ELSE i

\* The object after encrypt or decrypt. Every field of the seven classes is
\* readonly and the arrays they hold are only read: GCM copies J0 into a new
\* Counter before it increments, the other modes build their blocks with xor
\* and _double, which return new arrays.
AEAD_afterCall(i) == i

MaxEarlierCalls == 2

StatelessConfigs ==
  [mode : {"gcm", "eax", "ocb", "cwc", "gcm-siv", "pmac-siv"}, tagSize : {16}, L : {0}, nonceLen : {12}]
  \cup [mode : {"ccm"}, tagSize : {16}, L : {4}, nonceLen : {11}]

\* The earlier calls, of which the history keeps the outcome: an encryption,
\* an encryption with a nonce of a length the mode may refuse, a decryption of
\* a forgery, one with a short tag, and one of a genuine ciphertext.
EarlierOps == {"encrypt", "encryptOddNonce", "decryptForged", "decryptShortTag", "decryptGenuine"}

EarlierNonce(c, op) ==
  IF c.mode # "gcm" /\ op = "encryptOddNonce" THEN Sample(20, 61) ELSE Sample(c.nonceLen, 99)

EarlierText == Sample(21, 5)

EarlierSealed(i, c) == AEAD_encrypt(i, EarlierText, EarlierNonce(c, "encrypt"), X15)

EarlierOpened(i, c, sealed) ==
  AEAD_decrypt(i, [ciphertext |-> sealed.val, tag |-> sealed.tag,
                   nonce |-> EarlierNonce(c, "encrypt"), aad |-> X15])

EarlierCall(i, c, op) ==
  CASE op = "encrypt" -> EarlierSealed(i, c)
    [] op = "encryptOddNonce" -> AEAD_encrypt(i, EarlierText, EarlierNonce(c, op), <<>>)
    [] op = "decryptForged" ->
         AEAD_decrypt(i, [ciphertext |-> EarlierText, tag |-> Zeros(c.tagSize),
                          nonce |-> EarlierNonce(c, op), aad |-> <<>>])
    [] op = "decryptShortTag" ->
         AEAD_decrypt(i, [ciphertext |-> EarlierText, tag |-> Zeros(3),
                          nonce |-> EarlierNonce(c, op), aad |-> <<>>])
    [] op = "decryptGenuine" -> EarlierOpened(i, c, EarlierSealed(AEAD_new(c, EarlierNonce(c, op)), c))

StatelessInit ==
  /\ pc = "serving"
  /\ cfg \in StatelessConfigs
  /\ \E len \in {5, 8 * MaxBlocks + 1} :
       args = [plaintext |-> Sample(len, 3), nonce |-> Sample(cfg.nonceLen, 99), aad |-> X15]
  /\ inst = [E |-> AEAD_new(cfg, args.nonce)]
  /\ enc = None
  /\ dargs = [history |-> <<>>]
  /\ dec = None

Earlier ==
  /\ pc = "serving"
  /\ Len(dargs.history) < MaxEarlierCalls
  /\ \E op \in EarlierOps :
       dargs' = [history |-> Append(dargs.history, EarlierCall(inst.E, cfg, op).kind)]
  /\ inst' = [E |-> AEAD_afterCall(inst.E)]
  /\ UNCHANGED <<pc, cfg, args, enc, dec>>

\* encrypt on the used object and on a new one
EncryptOnBoth ==
  /\ pc = "serving"
  /\ dargs.history # <<>>
  /\ enc' = AEAD_encrypt(inst.E, args.plaintext, args.nonce, args.aad)
  /\ dec' = AEAD_encrypt(AEAD_new(cfg, args.nonce), args.plaintext, args.nonce, args.aad)
  /\ inst' = [E |-> AEAD_afterCall(inst.E)]
  /\ pc' = "encryptedOnBoth"
  /\ UNCHANGED <<cfg, args, dargs>>

DecryptInput(sealed, a, forged) ==
  [ciphertext |-> sealed.val, tag |-> IF forged THEN FlipBit(sealed.tag, 0) ELSE sealed.tag,
   nonce |-> a.nonce, aad |-> a.aad]

\* decrypt, of a genuine or a forged message, on the used object and on a new one
DecryptOnBoth ==
  /\ pc = "serving"
  /\ dargs.history # <<>>
  /\ \E forged \in BOOLEAN :
       /\ enc' = AEAD_decrypt(inst.E,
                   DecryptInput(AEAD_encrypt(AEAD_new(cfg, args.nonce), args.plaintext, args.nonce, args.aad),
                                args, forged))
       /\ dec' = AEAD_decrypt(AEAD_new(cfg, args.nonce),
                   DecryptInput(AEAD_encrypt(AEAD_new(cfg, args.nonce), args.plaintext, args.nonce, args.aad),
                                args, forged))
  /\ inst' = [E |-> AEAD_afterCall(inst.E)]
  /\ pc' = "decryptedOnBoth"
  /\ UNCHANGED <<cfg, args, dargs>>

StatelessNext == Earlier \/ EncryptOnBoth \/ DecryptOnBoth

SpecStateless == StatelessInit /\ [][StatelessNext]_vars

-----------------------------------------------------------------------------
(* Scenario: the modes documented as deterministic.  Two objects A and B   *)
(* are built from the same key (and IV).  An operation is called on A,     *)
(* then called again with byte-for-byte equal inputs, either on A itself   *)
(* or on B.                                                                *)

DetModes == {"ecb", "cbc", "xts", "kw", "kwp", "tkw", "cbc-mac", "cmac", "fpe-ff1"}

Det_new(c) ==
  CASE c.mode = "ecb" -> ECB_new(Key16)
    [] c.mode = "cbc" -> CBC_new(Key16, c.iv)
    [] c.mode = "xts" -> XTS_new(XtsKey)
    [] c.mode = "kw" -> KW_new(Key16)
    [] c.mode = "kwp" -> KWP_new(Key16)
    [] c.mode = "tkw" -> TKW_new(Key16)
    [] c.mode = "cbc-mac" -> CBCMAC_new(Key16)
    [] c.mode = "cmac" -> CMAC_new(Key16)
    [] c.mode = "fpe-ff1" -> FF1_new(Key16, Digits)

\* encrypt / wrap / generateTag: the instance afterwards and the outcome
Det_forward(st, a) ==
  CASE st.mode = "ecb" -> ECB_encrypt(st, a.data)
    [] st.mode = "cbc" -> [st |-> CBC_encrypt(st, a.data).st, out |-> CBC_encrypt(st, a.data).out]
    [] st.mode = "xts" -> [st |-> st, out |-> XTS_encrypt(st, a.data, a.tweak)]
    [] st.mode = "kw" -> [st |-> st, out |-> KW_wrap(st, a.data)]
    [] st.mode = "kwp" -> [st |-> st, out |-> KWP_wrap(st, a.data)]
    [] st.mode = "tkw" -> [st |-> st, out |-> TKW_wrap(st, a.data, a.tweak)]
    [] st.mode = "cbc-mac" -> [st |-> st, out |-> CBCMAC_generateTag(st, a.data, a.tagSize)]
    [] st.mode = "cmac" -> [st |-> st, out |-> CMAC_generateTag(st, a.data, a.tagSize)]
    [] st.mode = "fpe-ff1" -> [st |-> st, out |-> FF1_encrypt(st, a.data, a.tweak)]

\* decrypt / unwrap / verifyTag: the instance afterwards and the outcome
Det_inverse(st, a) ==
  CASE st.mode = "ecb" -> ECB_decrypt(st, a.data)
    [] st.mode = "cbc" -> CBC_decrypt(st, a.data)
    [] st.mode = "xts" -> [st |-> st, out |-> XTS_decrypt(st, a.data, a.tweak)]
    [] st.mode = "kw" -> [st |-> st, out |-> KW_unwrap(st, a.data)]
    [] st.mode = "kwp" -> [st |-> st, out |-> KWP_unwrap(st, a.data)]
    [] st.mode = "tkw" -> [st |-> st, out |-> TKW_unwrap(st, a.data, a.tweak)]
    [] st.mode = "cbc-mac" -> [st |-> st, out |-> CBCMAC_verifyTag(st, a.data, a.tag)]
    [] st.mode = "cmac" -> [st |-> st, out |-> CMAC_verifyTag(st, a.data, a.tag)]
    [] st.mode = "fpe-ff1" -> [st |-> st, out |-> FF1_decrypt(st, a.data, a.tweak)]

Det_call(st, op, a) == IF op = "forward" THEN Det_forward(st, a) ELSE Det_inverse(st, a)

\* input lengths of each mode: whole blocks, semiblocks, or digits
DetLens(mode) ==
  CASE mode \in {"ecb", "cbc"} -> {16 * k : k \in 1..MaxBlocks}
    [] mode = "xts" -> {16 * MaxBlocks, 16 * MaxBlocks + 5}
    [] mode = "kw" -> {16, 8 * MaxBlocks + 8}
    [] mode \in {"kwp", "tkw"} -> {5, 8 * MaxBlocks + 1}
    [] mode \in {"cbc-mac", "cmac"} -> {0, 16 * MaxBlocks + 1}
    [] mode = "fpe-ff1" -> {6, 8 * MaxBlocks + 1}

DetConfigs ==
  UNION {[mode : {m}, op : {"forward", "inverse"}, len : DetLens(m),
          iv : IF m = "cbc" THEN BasicIVs ELSE {Zeros(16)}] : m \in DetModes}

\* what the caller passes to the forward operation
DetForwardArgs(c) ==
  [data |-> IF c.mode = "fpe-ff1" THEN TextOver(Digits, c.len, 3) ELSE Sample(c.len, 3),
   tweak |-> IF c.mode = "xts" THEN Sample(16, 200) ELSE Sample(3, 7),
   tagSize |-> 8,
   tag |-> <<>>]

\* what the caller passes to the inverse operation: the output of the forward
\* operation, for a MAC the message and its tag
DetInverseArgs(c, a, produced) ==
  IF c.mode \in {"cbc-mac", "cmac"} THEN [a EXCEPT !.tag = produced.val]
  ELSE [a EXCEPT !.data = produced.val]

DetInit ==
  /\ pc = "det"
  /\ cfg \in DetConfigs
  /\ args = IF cfg.op = "forward" THEN DetForwardArgs(cfg)
            ELSE DetInverseArgs(cfg, DetForwardArgs(cfg),
                                Det_forward(Det_new(cfg), DetForwardArgs(cfg)).out)
  /\ inst = [A |-> Det_new(cfg), B |-> Det_new(cfg)]
  /\ enc = None
  /\ dargs = None
  /\ dec = None

\* the first call, on A
DetCall ==
  /\ pc = "det"
  /\ LET r == Det_call(inst.A, cfg.op, args)
     IN /\ enc' = r.out
        /\ inst' = [inst EXCEPT !.A = r.st]
  /\ pc' = "called"
  /\ UNCHANGED <<cfg, args, dargs, dec>>

\* the same call once more on A
DetCallAgainSame ==
  /\ pc = "called"
  /\ dargs' = args
  /\ LET r == Det_call(inst.A, cfg.op, args)
     IN /\ dec' = r.out
        /\ inst' = [inst EXCEPT !.A = r.st]
  /\ pc' = "calledAgainSame"
  /\ UNCHANGED <<cfg, args, enc>>

\* the same call on B
DetCallOther ==
  /\ pc = "called"
  /\ dargs' = args
  /\ LET r == Det_call(inst.B, cfg.op, args)
     IN /\ dec' = r.out
        /\ inst' = [inst EXCEPT !.B = r.st]
  /\ pc' = "calledOther"
  /\ UNCHANGED <<cfg, args, enc>>

DetNext == DetCall \/ DetCallAgainSame \/ DetCallOther

SpecDeterministic == DetInit /\ [][DetNext]_vars

\* C16: ECB, CBC, XTS, KW, KWP, TKW, CBC-MAC, CMAC and FF1 are deterministic: a second
\* call of the same operation with equal inputs, on the same instance or on another
\* object built from the same key (and IV), returns the output of the first call
C16_Deterministic ==
  pc \in {"calledAgainSame", "calledOther"} => dec = enc

\* the same for every mode but CBC on one instance
C16_DeterministicButCbcInstance ==
  pc \in {"calledAgainSame", "calledOther"} /\ ~(cfg.mode = "cbc" /\ pc = "calledAgainSame")
    => enc.kind = "ok" /\ dec = enc

-----------------------------------------------------------------------------
(* Scenario: calls with malformed lengths.  An instance is constructed,    *)
(* optionally used for one well-formed call so that its chaining state has *)
(* moved, and is then given an input of a length the operation rejects.    *)

RejectConfigs ==
  [mode : {"ecb", "cbc"}, op : {"encrypt", "decrypt"}, size : {16},
     len : {1, 15, 17, 16 * MaxBlocks + 8}, other : {0}]
  \cup [mode : {"cfb"}, op : {"encrypt", "decrypt"}, size : {8, 16},
     len : {1, 7, 9, 16 * MaxBlocks + 4}, other : {0}]
  \cup [mode : {"xts"}, op : {"encrypt", "decrypt"}, size : {16}, len : {0, 1, 15}, other : {16}]
  \cup [mode : {"xts"}, op : {"encrypt", "decrypt"}, size : {16},
     len : {16 * MaxBlocks, 16 * MaxBlocks + 5}, other : {0, 15, 17}]
  \cup [mode : {"kw"}, op : {"encrypt"}, size : {8}, len : {1, 7, 9, 8 * MaxBlocks + 4}, other : {0}]
  \cup [mode : {"ccm"}, op : {"encrypt"}, size : {2, 4}, len : {0, 16 * MaxBlocks + 1},
     other : {0, 7, 10, 12, 14, 16}]
  \cup [mode : {"fpe-ff1"}, op : {"encrypt", "decrypt"}, size : {10}, len : 0..5, other : {0}]
  \cup [mode : {"fpe-ff1"}, op : {"encrypt", "decrypt"}, size : {2}, len : {1, 19}, other : {0}]

\* the configurations whose input the operation is documented to reject
Malformed(c) ==
  CASE c.mode \in {"ecb", "cbc"} -> c.len % 16 # 0
    [] c.mode = "cfb" -> c.len % c.size # 0
    [] c.mode = "xts" -> c.len < 16 \/ c.other # 16
    [] c.mode = "kw" -> c.len % 8 # 0
    [] c.mode = "ccm" -> c.other # 15 - c.size
    [] c.mode = "fpe-ff1" -> c.len < FF1_minLen(c.size)

Reject_new(c) ==
  CASE c.mode = "ecb" -> ECB_new(Key16)
    [] c.mode = "cbc" -> CBC_new(Key16, Sample(16, 200))
    [] c.mode = "cfb" -> CFB_new(Key16, Sample(16, 200), c.size)
    [] c.mode = "xts" -> XTS_new(XtsKey)
    [] c.mode = "kw" -> KW_new(Key16)
    [] c.mode = "ccm" -> CCM_new(Key16, 8, c.size)
    [] c.mode = "fpe-ff1" -> FF1_new(Key16, IF c.size = 2 THEN Binary ELSE Digits)

\* the call's effect: the instance afterwards and the outcome
Reject_call(st, op, a) ==
  CASE st.mode \in {"ecb", "cbc", "cfb"} /\ op = "encrypt" ->
         [st |-> Basic_encrypt(st, a.data).st, out |-> Basic_encrypt(st, a.data).out]
    [] st.mode \in {"ecb", "cbc", "cfb"} /\ op = "decrypt" -> Basic_decrypt(st, a.data)
    [] st.mode = "xts" /\ op = "encrypt" -> [st |-> st, out |-> XTS_encrypt(st, a.data, a.other)]
    [] st.mode = "xts" /\ op = "decrypt" -> [st |-> st, out |-> XTS_decrypt(st, a.data, a.other)]
    [] st.mode = "kw" -> [st |-> st, out |-> KW_wrap(st, a.data)]
    [] st.mode = "ccm" -> [st |-> st, out |-> CCM_encrypt(st, a.data, a.other, X15)]
    [] st.mode = "fpe-ff1" -> [st |-> st, out |-> _ff1(st, a.data, a.other, op = "encrypt")]

RejectInit ==
  /\ pc = "reject"
  /\ cfg \in {c \in RejectConfigs : Malformed(c)}
  /\ args = [data |-> IF cfg.mode = "fpe-ff1"
                      THEN TextOver(IF cfg.size = 2 THEN Binary ELSE Digits, cfg.len, 3)
                      ELSE Sample(cfg.len, 3),
             other |-> Sample(cfg.other, 7)]
  /\ inst = [E |-> Reject_new(cfg)]
  /\ enc = None
  /\ dargs = None
  /\ dec = None

\* a well-formed call of two blocks on the instance-state modes
WellFormedCall ==
  /\ pc = "reject"
  /\ cfg.mode \in {"ecb", "cbc", "cfb"}
  /\ LET r == Reject_call(inst.E, cfg.op, [data |-> Sample(32, 90)])
     IN /\ enc' = r.out
        /\ inst' = [inst EXCEPT !.E = r.st]
  /\ pc' = "used"
  /\ UNCHANGED <<cfg, args, dargs, dec>>

\* the malformed call; dargs keeps the instance as it was before the call
MalformedCall ==
  /\ pc \in {"reject", "used"}
  /\ dargs' = [before |-> inst.E, used |-> pc = "used"]
  /\ LET r == Reject_call(inst.E, cfg.op, args)
     IN /\ dec' = r.out
        /\ inst' = [inst EXCEPT !.E = r.st]
  /\ pc' = "rejected"
  /\ UNCHANGED <<cfg, args, enc>>

RejectNext == WellFormedCall \/ MalformedCall

SpecReject == RejectInit /\ [][RejectNext]_vars

\* C17: ECB and CBC on an input that is not a multiple of 16 bytes, CFB on an input
\* that is not a multiple of the segment size, XTS on an input shorter than 16 bytes or
\* a tweak that is not 16 bytes, KW.wrap on an input that is not a multiple of 8 bytes,
\* CCM.encrypt on a nonce whose length is not 15 - L and FF1 on a text shorter than the
\* minimum raise an error and return nothing, and the instance's chaining state after
\* the rejected call is what it was before
C17_MalformedLengthRejected ==
  pc = "rejected" => dec = Error /\ inst.E = dargs.before

C17_Witness ==
  /\ pc = "rejected"
  /\ cfg.mode = "cbc" /\ cfg.op = "encrypt" /\ cfg.len = 17
  /\ dargs.used
  /\ inst.E.lastCipherblock # Sample(16, 200)
  /\ dec = Error
  /\ inst.E = dargs.before

-----------------------------------------------------------------------------
(* Scenario: decrypt with a tag of the wrong length.  Each authenticated   *)
(* mode is given some ciphertext, nonce and associated data, and a tag     *)
(* whose length is not the tag size of the instance.                       *)

TagLengthConfigs ==
  [mode : {"gcm", "cwc", "gcm-siv"}, tagSize : {16}, L : {0}, nonceLen : {0, 8, 12, 16}]
  \cup [mode : {"ccm"}, tagSize : {4, 16}, L : {4}, nonceLen : {0, 11, 12}]
  \cup [mode : {"eax", "ocb", "pmac-siv"}, tagSize : {8, 16}, L : {0}, nonceLen : {0, 12, 16}]
  \cup [mode : {"hybrid-ctr"}, tagSize : {8, 16}, L : {0}, nonceLen : {0, 12, 16}]

TagLength_new(c, nonce) ==
  IF c.mode = "hybrid-ctr" THEN HCTR_new(Key16, c.tagSize) ELSE AEAD_new(c, nonce)

TagLength_decrypt(i, d) ==
  IF i.mode = "hybrid-ctr"
  THEN HCTR_decrypt(i, d.ciphertext, d.tag, d.nonce, d.aad, Zeros(16))
  ELSE AEAD_decrypt(i, d)

\* the tag lengths that are not the tag size of the instance
WrongTagLengths(tagSize) == {0, 1, 4, 8, 12, 15, 16, 17, 32} \ {tagSize}

TagLengthInit ==
  /\ pc = "tagLength"
  /\ cfg \in TagLengthConfigs
  /\ \E len \in {0, 16 * MaxBlocks + 5}, aad \in {<<>>, X15} :
       args = [ciphertext |-> Sample(len, 3), nonce |-> Sample(cfg.nonceLen, 150), aad |-> aad]
  /\ inst = [E |-> TagLength_new(cfg, args.nonce)]
  /\ enc = None
  /\ dargs = None
  /\ dec = None

\* decrypt(ciphertext, tag, nonce, aad) with a tag of n bytes
DecryptWrongTagLength ==
  /\ pc = "tagLength"
  /\ \E n \in WrongTagLengths(cfg.tagSize) :
       dargs' = [ciphertext |-> args.ciphertext, tag |-> Sample(n, 33),
                 nonce |-> args.nonce, aad |-> args.aad]
  /\ dec' = TagLength_decrypt(inst.E, dargs')
  /\ pc' = "tagLengthDecrypted"
  /\ UNCHANGED <<cfg, args, enc, inst>>

TagLengthNext == DecryptWrongTagLength

SpecTagLength == TagLengthInit /\ [][TagLengthNext]_vars

\* C18: in GCM, CCM, EAX, OCB, CWC, GCM-SIV, PMAC-SIV and HybridCTR, decrypt with a tag
\* whose length differs from the mode's tag size returns null and raises no error,
\* whatever the ciphertext, nonce and associated data are
C18_WrongTagLengthIsNull ==
  pc = "tagLengthDecrypted" => dec = Null

\* the same for every mode but CWC and GCM-SIV
C18_WrongTagLengthIsNullButCwcGcmSiv ==
  pc = "tagLengthDecrypted" /\ cfg.mode \notin {"cwc", "gcm-siv"} => dec = Null

\* CWC and GCM-SIV return null for a nonce of 12 bytes and raise an error otherwise
C18_CwcGcmSivNonceFirst ==
  pc = "tagLengthDecrypted" /\ cfg.mode \in {"cwc", "gcm-siv"} =>
    dec = IF cfg.nonceLen = 12 THEN Null ELSE Error

-----------------------------------------------------------------------------
(* The caller's arrays after a call (scenario 1: args.p0 holds the bytes of *)
(* the plaintext as they were before encrypt, args.p the array afterwards). *)

\* C19: no encrypt or decrypt call changes the contents of a byte array passed in by
\* the caller: after the call the plaintext argument holds the bytes it held before
C19_CallerArraysUnchanged ==
  pc \in {"encrypted", "decryptedFresh", "decryptedSame"} => args.p = args.p0

-----------------------------------------------------------------------------
(* Scenario: a HighLevelAES object constructed with a tag size encrypts a  *)
(* message under a given nonce; the same object then decrypts what encrypt *)
(* returned, with the tag cut to a prefix or extended by zero bytes.       *)

HighTagConfigs ==
  [mode : {"ccm"}, tagSize : {8, 12, 16}, nonceLen : {11}, len : {0, 16 * MaxBlocks + 5}]
  \cup [mode : {"eax", "ocb", "pmac-siv"}, tagSize : {8, 12, 16}, nonceLen : {12},
        len : {0, 16 * MaxBlocks + 5}]
  \cup [mode : {"hybrid-ctr"}, tagSize : {8, 12, 16}, nonceLen : {16}, len : {0, 16 * MaxBlocks + 5}]

\* the lengths a tag of tagSize bytes is cut or extended to
OtherTagLengths(tagSize) == {0, 4, 7, 8, 10, 12, 15, 16, 17} \ {tagSize}

\* the first n bytes of tag, zero bytes after its end
Resized(tag, n) == Bytes([i \in 1..n |-> IF i <= Len(tag) THEN tag[i] ELSE 0])

HighTagInit ==
  /\ pc = "highTag"
  /\ cfg \in HighTagConfigs
  /\ args = [plaintext |-> Sample(cfg.len, 33),
             options |-> [NoOptions EXCEPT !.nonce = Sample(cfg.nonceLen, 150), !.aad = X15]]
  /\ inst = [E |-> HL_new(cfg.mode, Key16, cfg.tagSize)]
  /\ enc = None
  /\ dargs = None
  /\ dec = None

HighTagEncrypt ==
  /\ pc = "highTag"
  /\ enc' = HL_encrypt(inst.E, args.plaintext, args.options, 0)
  /\ pc' = "highTagEncrypted"
  /\ UNCHANGED <<cfg, args, dargs, dec, inst>>

\* decrypt(ciphertext, {tag, nonce, aad}) with the tag resized to n bytes
HighTagDecryptResized ==
  /\ pc = "highTagEncrypted"
  /\ enc.kind = "ok"
  /\ \E n \in OtherTagLengths(cfg.tagSize) :
       dargs' = [ciphertext |-> enc.val, options |-> [args.options EXCEPT !.tag = Resized(enc.tag, n)]]
  /\ dec' = HL_decrypt(inst.E, enc.val, dargs'.options)
  /\ pc' = "highTagDecrypted"
  /\ UNCHANGED <<cfg, args, enc, inst>>

HighTagNext == HighTagEncrypt \/ HighTagDecryptResized

SpecHighTag == HighTagInit /\ [][HighTagNext]_vars

\* C20: a HighLevelAES object constructed with tag size t for CCM, EAX, OCB, PMAC-SIV or
\* HybridCTR accepts on decrypt only tags of t bytes: decrypt with a tag of any other
\* length, a prefix of the tag that encrypt returned included, fails without a plaintext
C20_HighLevelTagSizeEnforced ==
  /\ pc \in {"highTagEncrypted", "highTagDecrypted"} =>
       enc.kind = "ok" /\ Len(enc.tag) = cfg.tagSize
  /\ pc = "highTagDecrypted" => Len(dargs.options.tag) # cfg.tagSize /\ dec = Error

\* the same for CCM and OCB alone, and for PMAC-SIV on a message that is not empty
C20_TagSizeBoundIntoTag ==
  cfg.mode \in {"ccm", "ocb"} \/ (cfg.mode = "pmac-siv" /\ cfg.len > 0)
    => C20_HighLevelTagSizeEnforced

\* EAX and HybridCTR, and PMAC-SIV on the empty message, accept every prefix of at
\* least 8 bytes and nothing else
C20_PrefixAccepted ==
  pc = "highTagDecrypted"
    /\ (cfg.mode \in {"eax", "hybrid-ctr"} \/ (cfg.mode = "pmac-siv" /\ cfg.len = 0)) =>
    dec = IF Len(dargs.options.tag) \in 8..cfg.tagSize THEN Ok(args.plaintext) ELSE Error

-----------------------------------------------------------------------------
(* CMAC as OMAC1 (NIST SP 800-38B) states it, for comparison with generateTag *)

\* the number of blocks of the message: len / 16 rounded up, one for the empty message
OMAC1_n(message) == IF Len(message) = 0 THEN 1 ELSE (Len(message) + 15) \div 16

OMAC1_complete(message) == Len(message) > 0 /\ Len(message) % 16 = 0

\* the message itself when its last block is complete, else padded with 0x80 and zeros
OMAC1_blocks(message) ==
  IF OMAC1_complete(message) THEN message
  ELSE [set(Zeros(OMAC1_n(message) * 16), message, 0) EXCEPT ![Len(message) + 1] = 128]

\* E(X xor M_last xor K), X the chaining value over the blocks before the last one
OMAC1_T(c, message, blocks) ==
  AES_encrypt(c.aes,
    xor(xor(CMAC_loop(c, blocks, OMAC1_n(message), [X |-> Zeros(16), i |-> 0]),
            subarray(blocks, Len(blocks) - 16, Len(blocks))),
        IF OMAC1_complete(message) THEN c.K1 ELSE c.K2))

OMAC1_tag(c, message, tagSize) == Ok(subarray(OMAC1_T(c, message, OMAC1_blocks(message)), 0, tagSize))

\* C21: for a message of a nonzero multiple of 16 bytes CMAC processes len/16 blocks and
\* XORs K1 into the message's own last block, tag = E(X xor M_last xor K1); for every
\* other length the last block is padded with 0x80 and zeros and XORed with K2
C21_CmacIsOmac1 ==
  pc = "tagged" /\ cfg.mode = "cmac" => enc = OMAC1_tag(inst.E, args.message, cfg.tagSize)

\* the same for the lengths that are zero or not a multiple of 16
C21_PartialBlockUsesK2 ==
  pc = "tagged" /\ cfg.mode = "cmac" /\ ~OMAC1_complete(args.message)
    => enc = OMAC1_tag(inst.E, args.message, cfg.tagSize)

\* a message of whole blocks is tagged as the message followed by a block of zeros
\* would be under OMAC1 with K1
C21_WholeBlocksGetExtraBlock ==
  pc = "tagged" /\ cfg.mode = "cmac" /\ OMAC1_complete(args.message)
    => /\ enc # OMAC1_tag(inst.E, args.message, cfg.tagSize)
       /\ enc = Ok(subarray(AES_encrypt(inst.E.aes,
                     xor(CMAC_loop(inst.E, args.message \o Zeros(16),
                                   OMAC1_n(args.message) + 1, [X |-> Zeros(16), i |-> 0]),
                         inst.E.K1)), 0, cfg.tagSize))

-----------------------------------------------------------------------------
(* Scenario: the length and counter fields.  A field is written for a      *)
(* value: the final GHASH block for an AAD and a ciphertext length, block  *)
(* B0 of CCM for a payload length, counter block A_i of CCM for i.         *)

\* value, below 2^31, as an n-byte big-endian integer
BigEndian(value, n) ==
  Bytes([k \in 1..n |-> IF n - k >= 4 THEN 0 ELSE (value \div (256 ^ (n - k))) % 256])

\* byte lengths of the arrays given to GCM and CCM
FieldLens == {0, 1, 16 * MaxBlocks + 5, 255, 300}

\* block numbers of the CCM counter
FieldCounters == {1, 2, 255, 256, 65539}

FieldConfigs ==
  [field : {"ghash"}, L : {8}, a : FieldLens, b : FieldLens]
  \cup [field : {"B0"}, L : 2..8, a : FieldLens, b : {0}]
  \cup [field : {"A_i"}, L : 2..8, a : FieldCounters, b : {0}]

FieldInit ==
  /\ pc = "field"
  /\ cfg \in FieldConfigs
  /\ args = [nonce |-> Sample(15 - cfg.L, 150)]
  /\ inst = [E |-> IF cfg.field = "ghash" THEN None ELSE CCM_new(Key16, 16, cfg.L)]
  /\ enc = None
  /\ dargs = None
  /\ dec = None

\* the final block of ghash(associatedData, ciphertext)
WriteGhashLengths ==
  /\ pc = "field" /\ cfg.field = "ghash"
  /\ enc' = Ok(ghash_finalBlock(Sample(cfg.a, 9), Sample(cfg.b, 3)))
  /\ pc' = "written"
  /\ UNCHANGED <<cfg, args, dargs, dec, inst>>

\* B0 of _cbcMac(payload, iv, associatedData)
WriteB0 ==
  /\ pc = "field" /\ cfg.field = "B0"
  /\ enc' = Ok(CCM_B0(inst.E, Sample(cfg.a, 3), args.nonce, X15))
  /\ pc' = "written"
  /\ UNCHANGED <<cfg, args, dargs, dec, inst>>

\* the counter block of iteration i of _ctrProcess
WriteCounterBlock ==
  /\ pc = "field" /\ cfg.field = "A_i"
  /\ enc' = Ok(CCM_counterBlock(inst.E, args.nonce, cfg.a))
  /\ pc' = "written"
  /\ UNCHANGED <<cfg, args, dargs, dec, inst>>

FieldNext == WriteGhashLengths \/ WriteB0 \/ WriteCounterBlock

SpecFields == FieldInit /\ [][FieldNext]_vars

\* what the field is to hold
FieldExpected ==
  IF cfg.field = "ghash" THEN BigEndian(cfg.a * 8, 8) \o BigEndian(cfg.b * 8, 8)
  ELSE BigEndian(cfg.a, cfg.L)

\* the bytes of the written block that make up the field
FieldWritten ==
  IF cfg.field = "ghash" THEN enc.val ELSE subarray(enc.val, 16 - cfg.L, 16)

\* C22: the final GHASH block is the AAD bit length and the ciphertext bit length as
\* 64-bit big-endian integers, and for every L from 2 to 8 block B0 of CCM ends with the
\* payload length and counter block A_i ends with i as L-byte big-endian integers, the
\* higher-order bytes of a value below 2^32 being zero
C22_FieldsBigEndian ==
  pc = "written" => FieldWritten = FieldExpected

\* the same for the CCM fields of at most four bytes
C22_FourByteFieldsBigEndian ==
  pc = "written" /\ cfg.field # "ghash" /\ cfg.L <= 4 => FieldWritten = FieldExpected

\* a field of more than four bytes repeats the low-order bytes of the value in the
\* bytes above the fourth
C22_WideFieldsRepeat ==
  pc = "written" /\ (cfg.field = "ghash" \/ cfg.L > 4) =>
    \A k \in 1..Len(FieldWritten) :
      FieldWritten[k] = (IF cfg.field = "ghash" THEN BigEndian(cfg.a * 8, 4) \o BigEndian(cfg.a * 8, 4)
                                                      \o BigEndian(cfg.b * 8, 4) \o BigEndian(cfg.b * 8, 4)
                         ELSE BigEndian(cfg.a, 4) \o BigEndian(cfg.a, 4))[k + (IF cfg.field = "ghash" THEN 0 ELSE 8 - cfg.L)]

-----------------------------------------------------------------------------
(* Scenario: a message given in chunks.  Instance E takes the message as   *)
(* three successive chunks through three calls of the same operation;      *)
(* instance D, built from the same key and IV, takes the whole message in  *)
(* one call.                                                               *)

\* chunk lengths of the stream modes, and the numbers of units of the block modes
StreamChunks == {0, 1, 5, 15, 16, 8 * MaxBlocks + 1}
UnitChunks == 0..MaxBlocks

ChunkConfigs ==
  [mode : {"ctr", "ofb"}, segmentSize : {1}, op : {"encrypt", "decrypt"},
     first : StreamChunks, second : StreamChunks, third : {0, 7}]
  \cup [mode : {"cfb"}, segmentSize : {1}, op : {"encrypt", "decrypt"},
     first : {1, 5, 16}, second : {0, 15, 8 * MaxBlocks + 1}, third : {0, 7}]
  \cup [mode : {"cfb"}, segmentSize : {8}, op : {"encrypt", "decrypt"},
     first : {8 * k : k \in UnitChunks}, second : {8 * k : k \in UnitChunks}, third : {0, 8}]
  \cup [mode : {"cbc"}, segmentSize : {16}, op : {"encrypt", "decrypt"},
     first : {16 * k : k \in UnitChunks}, second : {16 * k : k \in UnitChunks}, third : {0, 16}]

\* the chunk boundaries: chunk k is bytes cuts[k] .. cuts[k + 1] - 1 of the message
ChunkCuts(c) == <<0, c.first, c.first + c.second, c.first + c.second + c.third>>

\* the call's effect: the instance afterwards and the outcome
Chunk_call(st, op, data) ==
  IF op = "encrypt" THEN [st |-> Basic_encrypt(st, data).st, out |-> Basic_encrypt(st, data).out]
  ELSE Basic_decrypt(st, data)

ChunkInit ==
  /\ pc = "chunking"
  /\ cfg \in ChunkConfigs
  /\ args = [message |-> Sample(cfg.first + cfg.second + cfg.third, 3)]
  /\ inst = [E |-> Basic_new([mode |-> cfg.mode, segmentSize |-> cfg.segmentSize, iv |-> Sample(16, 200)]),
             D |-> Basic_new([mode |-> cfg.mode, segmentSize |-> cfg.segmentSize, iv |-> Sample(16, 200)])]
  /\ enc = Ok(<<>>)
  /\ dargs = [done |-> 0]
  /\ dec = None

\* E takes the next chunk, a copy of its bytes; enc collects the outputs
ProcessChunk ==
  /\ pc = "chunking"
  /\ dargs.done < 3
  /\ LET r == Chunk_call(inst.E, cfg.op,
                         subarray(args.message, ChunkCuts(cfg)[dargs.done + 1],
                                  ChunkCuts(cfg)[dargs.done + 2]))
     IN /\ enc' = IF enc.kind = "ok" /\ r.out.kind = "ok" THEN Ok(enc.val \o r.out.val) ELSE Error
        /\ inst' = [inst EXCEPT !.E = r.st]
  /\ dargs' = [done |-> dargs.done + 1]
  /\ pc' = IF dargs.done = 2 THEN "chunked" ELSE "chunking"
  /\ UNCHANGED <<cfg, args, dec>>

\* D takes the whole message
ProcessWhole ==
  /\ pc = "chunked"
  /\ LET r == Chunk_call(inst.D, cfg.op, args.message)
     IN /\ dec' = r.out
        /\ inst' = [inst EXCEPT !.D = r.st]
  /\ pc' = "compared"
  /\ UNCHANGED <<cfg, args, enc, dargs>>

ChunkNext == ProcessChunk \/ ProcessWhole

SpecChunks == ChunkInit /\ [][ChunkNext]_vars

\* C23: for CTR and OFB with any chunk lengths, CFB with chunks that are multiples of
\* the segment size and CBC with chunks that are multiples of 16, the outputs of
\* successive encrypt calls on one instance, concatenated, are the output of one
\* encrypt call on the whole message on a fresh instance of the same key and IV; the
\* same for decrypt
C23_ChunkedEqualsWhole ==
  pc = "compared" => enc.kind = "ok" /\ dec = enc

C23_Witness ==
  /\ pc = "compared"
  /\ cfg.mode = "ctr" /\ cfg.op = "encrypt"
  /\ cfg.first = 5 /\ cfg.second = 8 * MaxBlocks + 1 /\ cfg.third = 7
  /\ dec = enc
  /\ Len(enc.val) = 8 * MaxBlocks + 13

-----------------------------------------------------------------------------
(* Scenario: who can reach an instance's running state.  The caller builds *)
(* two instances E and F from the same key and the same IV array or        *)
(* Counter object, then calls E, calls F, or writes into an array it       *)
(* passed in: the IV, the array Counter.counterBytes returned, the         *)
(* ciphertext buffer of E's last decrypt call.                             *)
(*                                                                         *)
(* args holds the caller's arrays.  An instance is [st, ref]: ref names    *)
(* the caller's array that a field of st refers to instead of holding      *)
(* bytes of its own:                                                       *)
(*   "counter"     CTR built from a Counter object keeps that object       *)
(*   "iv"          OFB keeps the IV array itself until the first refill    *)
(*   "ciphertext"  CBC.decrypt keeps a view of the last ciphertext block   *)

\* largest number of calls and writes in one run
MaxOwnershipSteps == 3

OwnershipConfigs ==
  [mode : {"ctr"}, ctor : {"bytes", "counter"}, op : {"encrypt", "decrypt"}]
  \cup [mode : {"ofb", "cfb", "cbc"}, ctor : {"bytes"}, op : {"encrypt", "decrypt"}]

\* the constructor: what the instance refers to afterwards
Own_new(c, iv) ==
  [st |-> Basic_new([mode |-> c.mode, segmentSize |-> 1, iv |-> iv]),
   ref |-> CASE c.mode = "ctr" /\ c.ctor = "counter" -> "counter"
             [] c.mode = "ofb" -> "iv"
             [] OTHER -> "none"]

\* the last 16 bytes of a buffer: ciphertext.subarray(i, i + 16) of the last iteration
LastBlockView(buffer) == subarray(buffer, Len(buffer) - 16, Len(buffer))

\* the running state the instance has, read through its reference
Own_state(i, heap, buffer) ==
  CASE i.ref = "counter" -> [i.st EXCEPT !.counter = heap.counter]
    [] i.ref = "iv" -> [i.st EXCEPT !.lastPrecipher = heap.iv]
    [] i.ref = "ciphertext" -> [i.st EXCEPT !.lastCipherblock = LastBlockView(heap[buffer])]
    [] OTHER -> i.st

\* what the instance refers to after a call on data
Own_refAfter(i, op, data) ==
  CASE i.st.mode = "ofb" /\ Len(data) > 0 -> "none"
    [] i.st.mode = "cbc" /\ Len(data) >= 16 -> IF op = "decrypt" THEN "ciphertext" ELSE "none"
    [] OTHER -> i.ref

\* encrypt / decrypt on the state as read through the reference
Own_run(st, op, data) ==
  IF op = "encrypt" THEN [st |-> Basic_encrypt(st, data).st, out |-> Basic_encrypt(st, data).out]
  ELSE Basic_decrypt(st, data)

Own_call(i, heap, buffer, op, data) ==
  [st |-> Own_run(Own_state(i, heap, buffer), op, data).st, ref |-> Own_refAfter(i, op, data)]

\* the caller's arrays after the call: the shared Counter object has been incremented,
\* a buffer given to CBC.decrypt is the one the instance now refers to
Own_heapAfter(i, after, heap, buffer, op, data) ==
  [heap EXCEPT !.counter = IF i.ref = "counter" THEN after.st.counter ELSE @,
               ![buffer] = IF after.ref = "ciphertext" /\ i.st.mode = "cbc" /\ Len(data) >= 16
                           THEN data ELSE @]

OwnershipLens(mode) == IF mode = "cbc" THEN {0, 16} ELSE {0, 5}

OwnershipInit ==
  /\ pc = "owned"
  /\ cfg \in OwnershipConfigs
  /\ args = [iv |-> Sample(16, 200), counter |-> Sample(16, 200),
             ciphertext |-> <<>>, ciphertextF |-> <<>>]
  /\ inst = [E |-> Own_new(cfg, Sample(16, 200)), F |-> Own_new(cfg, Sample(16, 200))]
  /\ enc = None
  /\ dec = None
  /\ dargs = [steps |-> 0, owned |-> Own_state(Own_new(cfg, Sample(16, 200)), args, "ciphertext")]

\* a call on E; dargs.owned is the running state this call leaves E in
CallOwn ==
  /\ dargs.steps < MaxOwnershipSteps
  /\ \E len \in OwnershipLens(cfg.mode) :
       LET after == Own_call(inst.E, args, "ciphertext", cfg.op, Sample(len, 3))
       IN /\ inst' = [inst EXCEPT !.E = after]
          /\ args' = Own_heapAfter(inst.E, after, args, "ciphertext", cfg.op, Sample(len, 3))
          /\ dargs' = [steps |-> dargs.steps + 1, owned |-> Own_state(after, args', "ciphertext")]
  /\ pc' = "calledOwn"
  /\ UNCHANGED <<cfg, enc, dec>>

\* a call on the other instance
CallOtherInstance ==
  /\ dargs.steps < MaxOwnershipSteps
  /\ LET after == Own_call(inst.F, args, "ciphertextF", cfg.op, Sample(16, 90))
     IN /\ inst' = [inst EXCEPT !.F = after]
        /\ args' = Own_heapAfter(inst.F, after, args, "ciphertextF", cfg.op, Sample(16, 90))
  /\ dargs' = [dargs EXCEPT !.steps = @ + 1]
  /\ pc' = "calledOther"
  /\ UNCHANGED <<cfg, enc, dec>>

\* the caller overwrites the IV array it gave to the constructors
WriteIv ==
  /\ dargs.steps < MaxOwnershipSteps
  /\ cfg.ctor = "bytes"
  /\ args' = [args EXCEPT !.iv = Zeros(16)]
  /\ dargs' = [dargs EXCEPT !.steps = @ + 1]
  /\ pc' = "wroteIv"
  /\ UNCHANGED <<cfg, enc, dec, inst>>

\* the caller overwrites the array counter.counterBytes returned
WriteCounterBytes ==
  /\ dargs.steps < MaxOwnershipSteps
  /\ cfg.ctor = "counter"
  /\ args' = [args EXCEPT !.counter = Zeros(16)]
  /\ dargs' = [dargs EXCEPT !.steps = @ + 1]
  /\ pc' = "wroteCounterBytes"
  /\ UNCHANGED <<cfg, enc, dec, inst>>

\* the caller overwrites the ciphertext buffer it gave to E.decrypt
WriteCiphertext ==
  /\ dargs.steps < MaxOwnershipSteps
  /\ cfg.op = "decrypt" /\ Len(args.ciphertext) > 0
  /\ args' = [args EXCEPT !.ciphertext = Zeros(Len(args.ciphertext))]
  /\ dargs' = [dargs EXCEPT !.steps = @ + 1]
  /\ pc' = "wroteCiphertext"
  /\ UNCHANGED <<cfg, enc, dec, inst>>

OwnershipNext ==
  CallOwn \/ CallOtherInstance \/ WriteIv \/ WriteCounterBytes \/ WriteCiphertext

SpecOwnership == OwnershipInit /\ [][OwnershipNext]_vars

\* C24: the running state of a CTR, OFB, CFB or CBC instance changes only through
\* encrypt/decrypt calls on that instance: calls on another instance and later writes of
\* the caller to the IV, to the array Counter.counterBytes returned or to a ciphertext
\* buffer leave it as the instance's own last call left it
C24_StateExclusivelyOwned ==
  Own_state(inst.E, args, "ciphertext") = dargs.owned

\* the same for CFB, for CTR built from bytes and for CBC that encrypts
C24_CopiedStateOwned ==
  cfg.mode = "cfb" \/ (cfg.mode = "ctr" /\ cfg.ctor = "bytes") \/ (cfg.mode = "cbc" /\ cfg.op = "encrypt")
    => C24_StateExclusivelyOwned

-----------------------------------------------------------------------------
(* Scenario: the CTR counter.  An instance is started at counter value c0  *)
(* and called several times; args.stream collects the bytes given to the   *)
(* calls, enc the bytes they returned.                                      *)

\* largest number of calls on the instance
MaxCounterCalls == 3

\* the 128-bit big-endian value of bytes plus m, modulo 2^128
RECURSIVE AddBE(_, _)
AddBE(bytes, m) ==
  IF Len(bytes) = 0 THEN <<>>
  ELSE AddBE(SubSeq(bytes, 1, Len(bytes) - 1), (bytes[Len(bytes)] + m) \div 256)
         \o <<(bytes[Len(bytes)] + m) % 256>>

Ones(n) == Bytes([i \in 1..n |-> 255])

\* start values: zero, no carry, a carry out of one byte and of eight bytes, the two
\* largest values
CounterStarts ==
  {Zeros(16), Sample(16, 200), Zeros(15) \o <<255>>, Zeros(8) \o Ones(8),
   Ones(15) \o <<254>>, Ones(16)}

CounterLens == {0, 1, 15, 16, 8 * MaxBlocks + 1}

CounterInit ==
  /\ pc = "counter"
  /\ cfg \in [mode : {"ctr"}, c0 : CounterStarts]
  /\ args = [stream |-> <<>>]
  /\ inst = [E |-> CTR_new(Key16, Counter(cfg.c0))]
  /\ enc = Ok(<<>>)
  /\ dargs = [calls |-> 0]
  /\ dec = None

\* encrypt(data) or decrypt(data), the same function
CtrCall ==
  /\ dargs.calls < MaxCounterCalls
  /\ \E len \in CounterLens, op \in {"encrypt", "decrypt"} :
       LET data == Sample(len, 3 + 40 * dargs.calls)
           r == IF op = "encrypt" THEN CTR_encrypt(inst.E, data) ELSE CTR_decrypt(inst.E, data)
       IN /\ inst' = [inst EXCEPT !.E = r.st]
          /\ enc' = Ok(enc.val \o r.out.val)
          /\ args' = [stream |-> args.stream \o data]
  /\ dargs' = [calls |-> dargs.calls + 1]
  /\ pc' = "counted"
  /\ UNCHANGED <<cfg, dec>>

CounterNext == CtrCall

SpecCounter == CounterInit /\ [][CounterNext]_vars

\* AES((c0 + j) mod 2^128) for j = from .. blocks - 1, one after the other
RECURSIVE KeystreamBlocks(_, _, _, _)
KeystreamBlocks(aes, c0, from, blocks) ==
  IF from >= blocks THEN <<>>
  ELSE AES_encrypt(aes, AddBE(c0, from)) \o KeystreamBlocks(aes, c0, from + 1, blocks)

\* C25: after calls that processed N bytes in total the counter holds
\* (c0 + ceil(N/16)) mod 2^128, byte k of the stream was XORed with byte k mod 16 of
\* AES((c0 + floor(k/16)) mod 2^128), and the keystream cursor lies between 1 and 16
\* once N > 0
C25_CounterPerBlock ==
  /\ inst.E.counter = AddBE(cfg.c0, (Len(args.stream) + 15) \div 16)
  /\ enc = Ok(xor(args.stream,
                  KeystreamBlocks(inst.E.aes, cfg.c0, 0, (Len(args.stream) + 15) \div 16)))
  /\ Len(args.stream) > 0 => inst.E.remainingCounterIndex \in 1..16

C25_Witness ==
  /\ cfg.c0 = Zeros(8) \o Ones(8)
  /\ dargs.calls = 3
  /\ Len(args.stream) = 8 * MaxBlocks + 17
  /\ inst.E.counter = Zeros(7) \o <<1>> \o Zeros(7) \o <<(8 * MaxBlocks + 32) \div 16 - 1>>
  /\ inst.E.remainingCounterIndex = (8 * MaxBlocks + 17) % 16

-----------------------------------------------------------------------------
(* Scenario: the length prefix of KWP and TKW.  A holder of the key wraps  *)
(* a block of its own making with KW (for TKW behind the padded tweak):    *)
(* four prefix bytes followed by body bytes.  KWP.unwrap / TKW.unwrap is   *)
(* then called on the result.                                              *)

\* prefixes: lengths that fit, that exceed the body by one or by far, and values with
\* the top bit set
Prefixes(bodyLen) ==
  {<<0, 0, 0, 0>>, <<0, 0, 0, 3>>, <<0, 0, 0, bodyLen>>, <<0, 0, 0, bodyLen + 1>>,
   <<0, 0, 1, 0>>, <<0, 1, 0, 0>>, <<1, 0, 0, 0>>, <<127, 255, 255, 255>>,
   <<128, 0, 0, 0>>, <<128, 0, 0, 1>>, <<255, 255, 255, 251>>, <<255, 255, 255, 255>>}

PrefixBodyLens == {4, 12, 8 * MaxBlocks + 4}

PrefixConfigs ==
  UNION {[mode : {"kwp", "tkw"}, bodyLen : {n}, prefix : Prefixes(n)] : n \in PrefixBodyLens}

PrefixInit ==
  /\ pc = "prefix"
  /\ cfg \in PrefixConfigs
  /\ args = [padded |-> cfg.prefix \o Sample(cfg.bodyLen, 60), tweak |-> Sample(5, 7)]
  /\ inst = [E |-> IF cfg.mode = "kwp" THEN KWP_new(Key16) ELSE TKW_new(Key16)]
  /\ enc = IF cfg.mode = "kwp" THEN KW_wrap(KW_new(Key16), args.padded)
           ELSE KW_wrap(KW_new(Key16), TKW_padTweak(args.tweak) \o args.padded)
  /\ dargs = None
  /\ dec = None

\* unwrap(wrappedKey) / unwrap(wrappedKey, tweak)
UnwrapPrefixed ==
  /\ pc = "prefix"
  /\ enc.kind = "ok"
  /\ dargs' = [wrappedKey |-> enc.val, tweak |-> args.tweak]
  /\ dec' = IF cfg.mode = "kwp" THEN KWP_unwrap(inst.E, enc.val)
            ELSE TKW_unwrap(inst.E, enc.val, args.tweak)
  /\ pc' = "unprefixed"
  /\ UNCHANGED <<cfg, args, enc, inst>>

PrefixNext == UnwrapPrefixed

SpecPrefix == PrefixInit /\ [][PrefixNext]_vars

\* the prefix read as an unsigned 32-bit integer is larger than m (0 <= m < 2^31)
UnsignedAbove(b, m) ==
  b[1] >= 128 \/ b[1] * 16777216 + b[2] * 65536 + b[3] * 256 + b[4] > m

\* the prefix as a number, for prefixes below 2^31
UnsignedSmall(b) == b[1] * 16777216 + b[2] * 65536 + b[3] * 256 + b[4]

\* C26: KWP.unwrap and TKW.unwrap return null whenever the 4-byte big-endian length
\* prefix, read as an unsigned 32-bit integer, is larger than the number of bytes that
\* follow it; otherwise they return exactly that many bytes
C26_PrefixUnsigned ==
  pc = "unprefixed" =>
    IF UnsignedAbove(cfg.prefix, cfg.bodyLen) THEN dec = Null
    ELSE dec = Ok(SubSeq(args.padded, 5, 4 + UnsignedSmall(cfg.prefix)))

\* the same for prefixes whose top bit is clear
C26_PrefixBelowTopBit ==
  pc = "unprefixed" /\ cfg.prefix[1] < 128 =>
    IF UnsignedAbove(cfg.prefix, cfg.bodyLen) THEN dec = Null
    ELSE dec = Ok(SubSeq(args.padded, 5, 4 + UnsignedSmall(cfg.prefix)))

\* a prefix with the top bit set is read as a negative length and passes the check
C26_TopBitAccepted ==
  pc = "unprefixed" /\ cfg.prefix[1] >= 128 =>
    dec = Ok(subarray(args.padded, 4, 4 + Int32BE(cfg.prefix)))

\* a prefix of 0xFFFFFFFB returns all but the last byte of the body
C26_NegativeReturnsBytes ==
  pc = "unprefixed" /\ cfg.prefix = <<255, 255, 255, 251>> =>
    dec = Ok(SubSeq(args.padded, 5, Len(args.padded) - 1))

-----------------------------------------------------------------------------
(* Scenario: the two field multiplications.  The pairs (x, y) of a fixed   *)
(* list of blocks are multiplied one after the other, each by              *)
(* polyvalMultiply (of CWC or of GCM-SIV) and by galoisMultiply of GCM;    *)
(* dargs counts the pairs tried and those on which the results differ.     *)

\* zero, single bits at both ends of the block and of a byte, and full blocks
MulBlocks ==
  <<Zeros(16), <<128>> \o Zeros(15), <<1>> \o Zeros(15), Zeros(15) \o <<1>>,
    Zeros(15) \o <<128>>, Sample(16, 3), Sample(16, 200), Ones(16)>>

MulPairs == Len(MulBlocks) * Len(MulBlocks)

MulX(k) == MulBlocks[(k \div Len(MulBlocks)) + 1]

MulY(k) == MulBlocks[(k % Len(MulBlocks)) + 1]

MultiplyInit ==
  /\ pc = "multiply"
  /\ cfg \in [mode : {"cwc", "gcm-siv"}]
  /\ args = [x |-> MulX(0), y |-> MulY(0)]
  /\ inst = None
  /\ enc = None
  /\ dec = None
  /\ dargs = [tried |-> 0, differing |-> 0]

\* polyvalMultiply(x, y) and galoisMultiply(x, y) of the next pair
MultiplyPair ==
  /\ dargs.tried < MulPairs
  /\ enc' = Ok(IF cfg.mode = "cwc" THEN CWC_polyvalMultiply(args.x, args.y)
               ELSE GCMSIV_polyvalMultiply(args.x, args.y))
  /\ dec' = Ok(galoisMultiply(args.x, args.y))
  /\ dargs' = [tried |-> dargs.tried + 1,
               differing |-> dargs.differing + (IF enc' # dec' THEN 1 ELSE 0)]
  /\ args' = IF dargs.tried + 1 < MulPairs
             THEN [x |-> MulX(dargs.tried + 1), y |-> MulY(dargs.tried + 1)] ELSE args
  /\ pc' = "multiplied"
  /\ UNCHANGED <<cfg, inst>>

MultiplyNext == MultiplyPair

SpecMultiply == MultiplyInit /\ [][MultiplyNext]_vars

\* C27: polyvalMultiply of CWC and GCM-SIV is a different function from galoisMultiply
\* of GCM: among the pairs tried there is one on which the two results differ
C27_PolyvalDiffersFromGhash ==
  dargs.tried = MulPairs => dargs.differing > 0

\* on every pair polyvalMultiply returns what galoisMultiply returns
C27_PolyvalIsGaloisMultiply ==
  pc = "multiplied" => enc = dec /\ dargs.differing = 0

\* both are the MSB-first multiplication of GHASH: the block 80 00 .. 00 is the unit
C27_GhashUnit ==
  pc = "multiplied" /\ dargs.tried - 1 \in 8..15 => enc = Ok(MulY(dargs.tried - 1))

-----------------------------------------------------------------------------
(* Scenario: the fixed block P of FF1.  _cipher builds P from the radix of *)
(* the instance, the text length n, u = floor(n / 2) and the tweak length. *)

PRadixes == {2, 10, 36, 256, 1000, 65536}

PTextLens(radix) == {FF1_minLen(radix), 8 * MaxBlocks + 1, 255, 300, 70000}

PTweakLens == {0, 5, 16 * MaxBlocks + 1, 300}

PConfigs == UNION {[radix : {r}, n : PTextLens(r), tLen : PTweakLens] : r \in PRadixes}

PInit ==
  /\ pc = "P"
  /\ cfg \in PConfigs
  /\ args = [u |-> cfg.n \div 2, n |-> cfg.n, tLen |-> cfg.tLen]
  /\ inst = [E |-> [radix |-> cfg.radix, minLen |-> FF1_minLen(cfg.radix)]]
  /\ enc = None
  /\ dargs = None
  /\ dec = None

\* step 5 of _cipher
BuildP ==
  /\ pc = "P"
  /\ args.n >= inst.E.minLen
  /\ enc' = Ok(FF1_P(inst.E.radix, args.u, args.n, args.tLen))
  /\ pc' = "built"
  /\ UNCHANGED <<cfg, args, dargs, dec, inst>>

PNext == BuildP

SpecFF1Block == PInit /\ [][PNext]_vars

\* C28: P is the block of SP 800-38G: bytes 0-2 are 1, 2, 1; bytes 3-5 the radix as a
\* 3-byte big-endian integer; byte 6 is 10; byte 7 is u mod 256; bytes 8-11 the text
\* length n and bytes 12-15 the tweak length, each as a 4-byte big-endian integer
C28_PAsSpecified ==
  pc = "built" =>
    enc = Ok(<<1, 2, 1>> \o BigEndian(cfg.radix, 3) \o <<10, args.u % 256>>
               \o BigEndian(cfg.n, 4) \o BigEndian(cfg.tLen, 4))

\* what is built: the radix in two bytes, every later field one byte earlier, and a
\* last byte of zero
C28_PShiftedByOne ==
  pc = "built" =>
    enc = Ok(<<1, 2, 1>> \o BigEndian(cfg.radix % 65536, 2) \o <<10, args.u % 256>>
               \o BigEndian(cfg.n, 4) \o BigEndian(cfg.tLen, 4) \o <<0>>)

-----------------------------------------------------------------------------
(* Scenario: verifyTag on tags of several lengths.  enc holds the 16-byte   *)
(* tag of the message; the tag given to verifyTag is empty, a prefix of    *)
(* it, a prefix with one bit flipped, or 17 bytes long.                    *)

VerifyTagLens == {0, 1, 8, 16}

VerifyConfigs ==
  [mode : {"cbc-mac", "cmac"}, len : MacLengths, tagLen : VerifyTagLens, forged : BOOLEAN]
    \cup [mode : {"cbc-mac", "cmac"}, len : MacLengths, tagLen : {17}, forged : {FALSE}]

\* the tag the caller presents
PresentedTag(c, full) ==
  IF c.tagLen > 16 THEN full \o <<0>>
  ELSE IF c.forged /\ c.tagLen > 0 THEN FlipBit(subarray(full, 0, c.tagLen), 8 * c.tagLen - 1)
  ELSE subarray(full, 0, c.tagLen)

VerifyInit ==
  /\ pc = "verify"
  /\ cfg \in VerifyConfigs
  /\ args = [message |-> Sample(cfg.len, 23)]
  /\ inst = [E |-> MAC_new(cfg.mode, Key16)]
  /\ enc = MAC_generateTag(inst.E, args.message, 16)
  /\ dargs = [message |-> args.message, tag |-> PresentedTag(cfg, enc.val)]
  /\ dec = None

\* verifyTag(message, tag)
VerifyPresented ==
  /\ pc = "verify"
  /\ dec' = MAC_verifyTag(inst.E, dargs.message, dargs.tag)
  /\ pc' = "verified"
  /\ UNCHANGED <<cfg, args, enc, dargs, inst>>

VerifyNext == VerifyPresented

SpecVerify == VerifyInit /\ [][VerifyNext]_vars

\* C29: verifyTag never accepts an empty tag: it returns true only when the tag has at
\* least one byte and equals the first tag.length bytes of the tag computed for the
\* message
C29_EmptyTagRejected ==
  pc = "verified" /\ dec = Ok(TRUE) =>
    Len(dargs.tag) >= 1 /\ dargs.tag = subarray(enc.val, 0, Len(dargs.tag))

\* true is returned only for a prefix of the computed tag, the empty one included
C29_OnlyPrefixesAccepted ==
  pc = "verified" =>
    /\ dec = Ok(TRUE) <=> Len(dargs.tag) <= 16 /\ dargs.tag = subarray(enc.val, 0, Len(dargs.tag))
    /\ dec = Error <=> Len(dargs.tag) > 16

\* the empty tag is accepted for every message
C29_EmptyTagAccepted ==
  pc = "verified" /\ Len(dargs.tag) = 0 => dec = Ok(TRUE)

-----------------------------------------------------------------------------
(* Scenario: HybridCTR and its associated data.  encrypt is called with one *)
(* AAD; decrypt is called with the same key, nonce, tweak, ciphertext and  *)
(* tag, and another AAD.                                                   *)

AadX == Sample(16, 90)

AadY == Sample(16, 150)

\* AAD values: empty, short, one and two blocks, the two blocks swapped or repeated, a
\* bit flipped, a partial block and its zero-filled form
AadValues ==
  {<<>>, Sample(5, 90), Sample(5, 150), AadX, AadX \o AadY, AadY \o AadX, AadX \o AadX,
   AadY \o AadY, FlipBit(AadX \o AadY, 255), Sample(5, 90) \o Zeros(11)}

AadConfigs ==
  {c \in [len : {0, 16 * MaxBlocks + 1}, aad : AadValues, other : AadValues] : c.aad # c.other}

AadInit ==
  /\ pc = "aad"
  /\ cfg \in AadConfigs
  /\ args = [plaintext |-> Sample(cfg.len, 3), nonce |-> Sample(16, 31), aad |-> cfg.aad,
             tweak |-> Sample(16, 7)]
  /\ inst = [E |-> HCTR_new(Key16, 16)]
  /\ enc = None
  /\ dargs = None
  /\ dec = None

\* encrypt(plaintext, nonce, associatedData, tweak)
AadEncrypt ==
  /\ pc = "aad"
  /\ enc' = HCTR_encrypt(inst.E, args.plaintext, args.nonce, args.aad, args.tweak)
  /\ pc' = "sealed"
  /\ UNCHANGED <<cfg, args, dargs, dec, inst>>

\* decrypt(ciphertext, tag, nonce, other AAD, tweak)
AadDecryptOther ==
  /\ pc = "sealed"
  /\ enc.kind = "ok"
  /\ dargs' = [ciphertext |-> enc.val, tag |-> enc.tag, nonce |-> enc.nonce, aad |-> cfg.other,
               tweak |-> args.tweak]
  /\ dec' = HCTR_decrypt(inst.E, enc.val, enc.tag, enc.nonce, cfg.other, args.tweak)
  /\ pc' = "opened"
  /\ UNCHANGED <<cfg, args, enc, inst>>

AadNext == AadEncrypt \/ AadDecryptOther

SpecAad == AadInit /\ [][AadNext]_vars

\* the zero-filled 16-byte blocks of data that occur an odd number of times
OddBlocks(data) ==
  LET block(k) == set(Zeros(16), subarray(data, 16 * k, 16 * k + 16), 0)
      last == (Len(data) + 15) \div 16 - 1
  IN {b \in {block(k) : k \in 0..last} :
        Cardinality({k \in 0..last : block(k) = b}) % 2 = 1}

\* C30: HybridCTR authenticates its associated data: decrypt returns null whenever the
\* AAD passed to it differs from the AAD of the encrypt call that produced the tag, AAD
\* values of the same length included
C30_AadAuthenticated ==
  pc = "opened" /\ dargs.aad # args.aad => dec = Null

\* an AAD of another length, or with other blocks occurring an odd number of times, is
\* rejected
C30_OtherBlocksRejected ==
  pc = "opened" /\ (Len(dargs.aad) # Len(args.aad) \/ OddBlocks(dargs.aad) # OddBlocks(args.aad))
    => dec = Null

\* an AAD of the same length whose blocks are those of the original in another order,
\* or that repeats another block an even number of times, is accepted
C30_SameFoldAccepted ==
  pc = "opened" /\ Len(dargs.aad) = Len(args.aad) /\ OddBlocks(dargs.aad) = OddBlocks(args.aad)
    => dec = Ok(args.plaintext)

====
